---- MODULE Spec2Model ----
(***************************************************************************)
(* Model of the charge reconciliation code of Swallowedin/charges2:        *)
(*   src/analysis/conformity_analyzer.py  (normalizer, matcher, verdicts,  *)
(*                                         local and oracle-backed         *)
(*                                         conformity analysis)            *)
(*   src/analysis/__init__.py, src/app.py (the analysis entry points)      *)
(*                                                                         *)
(* Text is modelled character by character: a Python str is a sequence of  *)
(* one-character strings.  Floats that the code obtains by dividing two    *)
(* small integers are modelled as exact fractions [num, den] and compared  *)
(* by cross-multiplication; for the small operands used here the correctly *)
(* rounded IEEE quotient compares with the literals 0.3, 0.5 and 0.8       *)
(* exactly as the fraction compares with 3/10, 1/2 and 4/5.                *)
(***************************************************************************)
EXTENDS Integers, Sequences, FiniteSets, TLC

VARIABLES
    label,                  \* SpecNorm: the free-text label given to the normalizer
    key1,                   \* SpecNorm: its standardized_name
    key2,                   \* SpecNorm: the standardized_name of key1
    npc,                    \* SpecNorm: "input" | "once" | "twice"
    refacturable_charges,   \* list of category records (argument of the analysis)
    charged_amounts,        \* list of charge records (argument of the analysis)
    pc,                     \* position of the caller: "idle" | "input" | "matched" | "done"
    matches,                \* outcome of find_similar_charges
    evaluations,            \* evaluate_charge_conformity of the charges handled so far
    outcome,                \* outcome of analyse_charges_conformity_local
    entry,                  \* SpecEntry: the entry point that was called
    returned,               \* SpecEntry: the value it returned
    call,                   \* SpecEntry: the environment of the call and the oracle's replies
    docs,                   \* SpecExtract: what the documents and the oracle hold
    log,                    \* SpecExtract: the extraction attempts made, in order
    xpc,                    \* SpecExtract: "idle" | "step2" | "step3" | "extracted" | "aborted"
    table,                  \* SpecTable: the rows given to convert_table_data_to_charges
    table_charges,          \* SpecTable: the records it returned
    tpc,                    \* SpecTable: "idle" | "input" | "converted"
    height,                 \* SpecImage: height of the image
    width,                  \* SpecImage: width of the image
    channels,               \* SpecImage: number of colour channels of the image
    grid,                   \* SpecImage: outcome of ocr_table_by_grid
    processed,              \* SpecImage: outcome of the preprocessing
    ipc                     \* SpecImage: "idle" | "input" | "gridded" | "preprocessed"

normVars  == <<label, key1, key2, npc>>
inputVars == <<refacturable_charges, charged_amounts>>
matchVars == <<matches, evaluations>>
entryVars == <<entry, returned>>
extractVars == <<docs, log, xpc>>
tableVars == <<table, table_charges, tpc>>
imageVars == <<height, width, channels, grid, processed, ipc>>
moreVars == <<call, extractVars, tableVars, imageVars>>
vars == <<label, key1, key2, npc, refacturable_charges, charged_amounts, pc,
          matches, evaluations, outcome, entry, returned, call,
          docs, log, xpc, table, table_charges, tpc,
          height, width, channels, grid, processed, ipc>>

None == "None"              \* Python's None

\* the variables of a specification that is not running
ExtractIdle == docs = None /\ log = <<>> /\ xpc = "idle"
TableIdle   == table = <<>> /\ table_charges = <<>> /\ tpc = "idle"
ImageIdle   == height = 0 /\ width = 0 /\ channels = 0 /\ grid = None /\ processed = None /\ ipc = "idle"
MoreIdle    == call = None /\ ExtractIdle /\ TableIdle /\ ImageIdle

(***************************************************************************)
(* Characters                                                              *)
(***************************************************************************)
Letters  == <<"a","b","c","d","e","f","g","h","i","j","k","l","m","n","o","p","q","r","s","t","u","v","w","x","y","z">>
Capitals == <<"A","B","C","D","E","F","G","H","I","J","K","L","M","N","O","P","Q","R","S","T","U","V","W","X","Y","Z">>
Digits   == {"0","1","2","3","4","5","6","7","8","9"}

Range(s) == {s[i] : i \in DOMAIN s}

\* \w of a Python 3 str pattern, on the characters used here.
IsWordChar(c) == c \in Range(Letters) \cup Range(Capitals) \cup Digits \cup {"_"}

\* \s
IsSpace(c) == c \in {" ", "\t", "\n"}

\* str.lower() on one character
LowerChar(c) ==
    IF c \in Range(Capitals)
    THEN Letters[CHOOSE i \in DOMAIN Capitals : Capitals[i] = c]
    ELSE c

(***************************************************************************)
(* standardize_charge_names: the computation of standardized_name          *)
(***************************************************************************)
\* name.lower()
Lower(s) == [i \in DOMAIN s |-> LowerChar(s[i])]

\* re.sub(r'[^\w\s]', ' ', name)
ReplaceSpecial(s) ==
    [i \in DOMAIN s |-> IF IsWordChar(s[i]) \/ IsSpace(s[i]) THEN s[i] ELSE " "]

\* re.sub(r'\s+', ' ', name): every maximal run of whitespace becomes one space
RECURSIVE CollapseFrom(_, _)
CollapseFrom(s, i) ==
    IF i > Len(s) THEN <<>>
    ELSE IF IsSpace(s[i])
         THEN IF i > 1 /\ IsSpace(s[i-1])
              THEN CollapseFrom(s, i + 1)
              ELSE <<" ">> \o CollapseFrom(s, i + 1)
         ELSE <<s[i]>> \o CollapseFrom(s, i + 1)

CollapseSpaces(s) == CollapseFrom(s, 1)

\* does r'\b' + w + r'\b' match s at position i ?
MatchesWordAt(s, w, i) ==
    /\ i + Len(w) - 1 <= Len(s)
    /\ \A k \in 1..Len(w) : s[i + k - 1] = w[k]
    /\ (i = 1 \/ ~IsWordChar(s[i - 1]))
    /\ (i + Len(w) - 1 = Len(s) \/ ~IsWordChar(s[i + Len(w)]))

\* re.sub(r'\b' + w + r'\b', '', s): leftmost non-overlapping matches are
\* deleted; the characters around them, spaces included, stay.
RECURSIVE RemoveWordFrom(_, _, _)
RemoveWordFrom(s, w, i) ==
    IF i > Len(s) THEN <<>>
    ELSE IF MatchesWordAt(s, w, i)
         THEN RemoveWordFrom(s, w, i + Len(w))
         ELSE <<s[i]>> \o RemoveWordFrom(s, w, i + 1)

RemoveWord(s, w) == RemoveWordFrom(s, w, 1)

stop_words ==
    << <<"d","e">>, <<"d","u">>, <<"l","a">>, <<"l","e">>, <<"l","e","s">>,
       <<"d","e","s">>, <<"u","n">>, <<"u","n","e">>, <<"e","t">>, <<"o","u">>,
       <<"a">>, <<"a","u">>, <<"a","u","x">> >>

\* for word in stop_words: name = re.sub(...)
RECURSIVE RemoveStopWordsFrom(_, _)
RemoveStopWordsFrom(s, n) ==
    IF n > Len(stop_words) THEN s
    ELSE RemoveStopWordsFrom(RemoveWord(s, stop_words[n]), n + 1)

RemoveStopWords(s) == RemoveStopWordsFrom(s, 1)

\* name.strip()
RECURSIVE LStrip(_)
LStrip(s) == IF s # <<>> /\ IsSpace(Head(s)) THEN LStrip(Tail(s)) ELSE s

RECURSIVE RStrip(_)
RStrip(s) ==
    IF s # <<>> /\ IsSpace(s[Len(s)]) THEN RStrip(SubSeq(s, 1, Len(s) - 1)) ELSE s

Strip(s) == RStrip(LStrip(s))

\* lines 36-50: the standardized_name of a label
StandardizeName(s) ==
    Strip(RemoveStopWords(CollapseSpaces(ReplaceSpecial(Lower(s)))))

(***************************************************************************)
(* The labels of the matching and analysis specifications                  *)
(***************************************************************************)
L_NETTOYAGE     == <<"N","E","T","T","O","Y","A","G","E">>
L_EAU           == <<"E","A","U">>
L_EauChaude     == <<"E","a","u"," ","c","h","a","u","d","e">>
L_FraisDeGestion == <<"F","r","a","i","s"," ","d","e"," ","g","e","s","t","i","o","n">>
L_Lot5          == <<"L","o","t"," ","b"," ","c"," ","f"," ","h">>
L_Lot10         == <<"L","o","t"," ","b"," ","c"," ","f"," ","g"," ","h"," ","i"," ","j"," ","k"," ","m">>
L_DeLa          == <<"d","e"," ","l","a">>

L_Nettoyage     == <<"N","e","t","t","o","y","a","g","e">>
L_Chauffage     == <<"C","h","a","u","f","f","a","g","e">>
L_Eau           == <<"E","a","u">>
L_FraisGestion  == <<"F","r","a","i","s"," ","g","e","s","t","i","o","n">>
L_GestionFrais  == <<"G","e","s","t","i","o","n"," ","f","r","a","i","s">>
L_LotZ          == <<"L","o","t"," ","b"," ","c"," ","z">>
L_LotM          == <<"L","o","t"," ","b"," ","c"," ","f"," ","m">>

\* labels of the charges given to the matcher
ChargeLabels ==
    {L_NETTOYAGE, L_EAU, L_EauChaude, L_FraisDeGestion, L_Lot5, L_Lot10, L_DeLa}

\* labels of the refacturable categories given to the matcher
CategoryLabels ==
    {L_Nettoyage, L_Eau, L_EauChaude, L_FraisGestion, L_GestionFrais, L_LotZ, L_LotM}

\* labels of the categories given to the local analysis
LocalCategoryLabels == {L_Nettoyage, L_Chauffage, L_Eau, L_LotM}

\* labels of the charges given to the local analysis
LocalChargeLabels == {L_NETTOYAGE, L_EAU, L_EauChaude, L_Lot10}

\* standardized_name of every label in use, computed once
KeyTable ==
    [l \in ChargeLabels \cup CategoryLabels \cup LocalChargeLabels \cup LocalCategoryLabels
        |-> StandardizeName(l)]

(***************************************************************************)
(* standardize_charge_names on records                                     *)
(***************************************************************************)
\* lines 28-33: the text that is standardized
NameOf(charge) ==
    IF "poste" \in DOMAIN charge THEN charge["poste"]
    ELSE IF "categorie" \in DOMAIN charge THEN charge["categorie"]
    ELSE <<>>

\* std_charge = charge: the name is bound to the caller's own record
same_record(charge) == [callers |-> TRUE, entries |-> charge]

\* line 25, charge.copy(): a new dict holding the entries of charge
copy(charge) == [callers |-> FALSE, entries |-> charge]

\* lines 25, 53: a copy of the record with standardized_name added
StdCharge(charge) ==
    [k \in DOMAIN copy(charge).entries \cup {"standardized_name"} |->
        IF k = "standardized_name" THEN KeyTable[NameOf(charge)] ELSE copy(charge).entries[k]]

standardize_charge_names(charges) == [i \in DOMAIN charges |-> StdCharge(charges[i])]

\* line 53 as the caller sees it: the write lands in the dict std_charge is
\* bound to, which is the caller's record only if no copy was taken
ChargeAfterStandardize(charge) ==
    IF copy(charge).callers THEN StdCharge(charge) ELSE charge

\* lines 24-54: the list passed to standardize_charge_names, after the call
\* (nothing is appended to it, removed from it or moved in it)
ChargesAfterStandardize(charges) ==
    [i \in DOMAIN charges |-> ChargeAfterStandardize(charges[i])]

(***************************************************************************)
(* find_similar_charges                                                    *)
(***************************************************************************)
\* str.split(): the maximal runs of non-whitespace characters, in order
RECURSIVE SplitFrom(_, _, _)
SplitFrom(s, i, word) ==
    IF i > Len(s)
    THEN IF word = <<>> THEN <<>> ELSE <<word>>
    ELSE IF IsSpace(s[i])
         THEN (IF word = <<>> THEN <<>> ELSE <<word>>) \o SplitFrom(s, i + 1, <<>>)
         ELSE SplitFrom(s, i + 1, Append(word, s[i]))

Split(s) == SplitFrom(s, 1, <<>>)

\* needle in hay (Python's substring test on str)
Contains(hay, needle) ==
    \E i \in 0..(Len(hay) - Len(needle)) : SubSeq(hay, i + 1, i + Len(needle)) = needle

Max(a, b) == IF a >= b THEN a ELSE b

\* a mutant of PairSimilarity: the common words are divided by the smaller
\* of the two numbers of words
PairSimilarityOverSmaller(charged_name, refac_name) ==
    IF charged_name = refac_name
    THEN [raised |-> FALSE, num |-> 1, den |-> 1]
    ELSE IF Contains(refac_name, charged_name) \/ Contains(charged_name, refac_name)
    THEN [raised |-> TRUE, num |-> 0, den |-> 1]
    ELSE LET charged_words == Range(Split(charged_name))
             refac_words   == Range(Split(refac_name))
             common_words  == charged_words \cap refac_words
         IN  IF common_words # {}
             THEN [raised |-> FALSE,
                   num |-> Cardinality(common_words),
                   den |-> IF Cardinality(charged_words) <= Cardinality(refac_words)
                           THEN Cardinality(charged_words) ELSE Cardinality(refac_words)]
             ELSE [raised |-> FALSE, num |-> 0, den |-> 1]

\* lines 86-103: the score of one (charged, refacturable) pair of keys.
\* raised is TRUE where line 94 throws: it iterates over the two word LISTS
\* and tests "list in str", a TypeError on every input that reaches it.
PairSimilarity(charged_name, refac_name) ==
    IF charged_name = refac_name
    THEN [raised |-> FALSE, num |-> 1, den |-> 1]
    ELSE IF Contains(refac_name, charged_name) \/ Contains(charged_name, refac_name)
    THEN [raised |-> TRUE, num |-> 0, den |-> 1]
    ELSE LET charged_words == Range(Split(charged_name))
             refac_words   == Range(Split(refac_name))
             common_words  == charged_words \cap refac_words
         IN  IF common_words # {}
             THEN [raised |-> FALSE,
                   num |-> Cardinality(common_words),
                   den |-> Max(Cardinality(charged_words), Cardinality(refac_words))]
             ELSE [raised |-> FALSE, num |-> 0, den |-> 1]

Keys == Range(KeyTable)

\* the score of every pair of keys in use, computed once
SimTable == [c \in Keys, r \in Keys |-> PairSimilarity(c, r)]

\* comparison of two similarities (fractions with positive denominators)
SimLess(a, b) == a.num * b.den < b.num * a.den
SimEq(a, b)   == a.num * b.den = b.num * a.den

\* the mutant of AboveThreshold: the cutoff taken as inclusive
AboveThresholdInclusive(sim) == sim.num * 10 >= 3 * sim.den

\* line 106: similarity > 0.3
AboveThreshold(sim) == sim.num * 10 > 3 * sim.den

\* lines 82-110 for one charge: the candidates in category order
RECURSIVE CandidatesFrom(_, _, _)
CandidatesFrom(charged_name, std_refacturable, j) ==
    IF j > Len(std_refacturable) THEN <<>>
    ELSE LET refac == std_refacturable[j]
             sim   == SimTable[charged_name, refac["standardized_name"]]
         IN  (IF AboveThreshold(sim)
              THEN << [refacturable |-> refac,
                       similarity   |-> [num |-> sim.num, den |-> sim.den]] >>
              ELSE <<>>)
             \o CandidatesFrom(charged_name, std_refacturable, j + 1)

\* the mutant of InsertDesc: an element is put before the elements it ties with
InsertDescBeforeTies(sorted, x) ==
    LET before == {i \in DOMAIN sorted : SimLess(x.similarity, sorted[i].similarity)}
        n == Cardinality(before)
    IN  SubSeq(sorted, 1, n) \o <<x>> \o SubSeq(sorted, n + 1, Len(sorted))

\* one insertion of a stable descending sort: x goes after every element
\* whose similarity is greater than or equal to its own
InsertDesc(sorted, x) ==
    LET before == {i \in DOMAIN sorted : ~SimLess(sorted[i].similarity, x.similarity)}
        n == Cardinality(before)
    IN  SubSeq(sorted, 1, n) \o <<x>> \o SubSeq(sorted, n + 1, Len(sorted))

\* line 113: list.sort(key=similarity, reverse=True), which is stable
RECURSIVE SortDescFrom(_, _, _)
SortDescFrom(list, i, sorted) ==
    IF i > Len(list) THEN sorted
    ELSE SortDescFrom(list, i + 1, InsertDesc(sorted, list[i]))

SortDesc(list) == SortDescFrom(list, 1, <<>>)

\* lines 70-115.  raised: a pair of keys reached line 94 (the exception
\* leaves the function); otherwise value maps each charge key to its list.
find_similar_charges(refacturables, charged) ==
    LET std_refacturable == standardize_charge_names(refacturables)
        std_charged      == standardize_charge_names(charged)
        names == {std_charged[i]["standardized_name"] : i \in DOMAIN std_charged}
        throws == \E c \in names : \E j \in DOMAIN std_refacturable :
                      SimTable[c, std_refacturable[j]["standardized_name"]].raised
    IN  IF throws
        THEN [raised |-> TRUE, value |-> <<>>]
        ELSE [raised |-> FALSE,
              value  |-> [c \in names |->
                            SortDesc(CandidatesFrom(c, std_refacturable, 1))]]

\* dict.get(key, [])
GetMatches(charge_matches, std_name) ==
    IF std_name \in DOMAIN charge_matches THEN charge_matches[std_name] ELSE <<>>

(***************************************************************************)
(* evaluate_charge_conformity                                              *)
(***************************************************************************)
\* a mutant of evaluate_charge_conformity: 0.8 itself counts as a direct match
evaluate_charge_conformity_ge08(charged_amount, matching_refacturables) ==
    IF matching_refacturables = <<>>
    THEN [conformite |-> "non conforme", justification |-> "aucune",
          contestable |-> TRUE, raison_contestation |-> "non prevue"]
    ELSE LET best_match == matching_refacturables[1]
             sim == best_match.similarity
         IN  IF sim.num * 10 >= 8 * sim.den
             THEN [conformite |-> "conforme", justification |-> "directe",
                   contestable |-> FALSE, raison_contestation |-> ""]
             ELSE IF sim.num * 10 > 5 * sim.den
             THEN [conformite |-> "à vérifier", justification |-> "partielle",
                   contestable |-> FALSE, raison_contestation |-> "verifier"]
             ELSE [conformite |-> "à vérifier", justification |-> "faible",
                   contestable |-> TRUE, raison_contestation |-> "insuffisante"]

\* a mutant of evaluate_charge_conformity: 0.5 itself counts as a partial match
evaluate_charge_conformity_ge05(charged_amount, matching_refacturables) ==
    IF matching_refacturables = <<>>
    THEN [conformite |-> "non conforme", justification |-> "aucune",
          contestable |-> TRUE, raison_contestation |-> "non prevue"]
    ELSE LET best_match == matching_refacturables[1]
             sim == best_match.similarity
         IN  IF sim.num * 10 > 8 * sim.den
             THEN [conformite |-> "conforme", justification |-> "directe",
                   contestable |-> FALSE, raison_contestation |-> ""]
             ELSE IF sim.num * 10 >= 5 * sim.den
             THEN [conformite |-> "à vérifier", justification |-> "partielle",
                   contestable |-> FALSE, raison_contestation |-> "verifier"]
             ELSE [conformite |-> "à vérifier", justification |-> "faible",
                   contestable |-> TRUE, raison_contestation |-> "insuffisante"]

\* lines 128-162.  The justification and reason texts are abbreviated:
\* "aucune" = no matching charge found in the lease, "directe" / "partielle" /
\* "faible" = direct / partial / weak correspondence with the best category.
evaluate_charge_conformity(charged_amount, matching_refacturables) ==
    IF matching_refacturables = <<>>
    THEN [conformite |-> "non conforme", justification |-> "aucune",
          contestable |-> TRUE, raison_contestation |-> "non prevue"]
    ELSE LET best_match == matching_refacturables[1]
             sim == best_match.similarity
         IN  IF sim.num * 10 > 8 * sim.den
             THEN [conformite |-> "conforme", justification |-> "directe",
                   contestable |-> FALSE, raison_contestation |-> ""]
             ELSE IF sim.num * 10 > 5 * sim.den
             THEN [conformite |-> "à vérifier", justification |-> "partielle",
                   contestable |-> FALSE, raison_contestation |-> "verifier"]
             ELSE [conformite |-> "à vérifier", justification |-> "faible",
                   contestable |-> TRUE, raison_contestation |-> "insuffisante"]

(***************************************************************************)
(* SpecMatch: find_similar_charges called on every list of at most         *)
(* MaxCharges charges and MaxCategories categories over the labels above,  *)
(* then evaluate_charge_conformity on each charge's candidate list.        *)
(***************************************************************************)
MaxCharges == 2
MaxCategories == 2

NormIdle ==
    /\ label = <<>>
    /\ key1 = None
    /\ key2 = None
    /\ npc = "idle"

MatchInit ==
    /\ NormIdle
    /\ refacturable_charges = <<>>
    /\ charged_amounts = <<>>
    /\ pc = "input"
    /\ matches = None
    /\ evaluations = <<>>
    /\ outcome = None
    /\ entry = None
    /\ returned = None
    /\ MoreIdle

\* the caller puts one more category in the list it will pass
AddCategory ==
    /\ pc = "input"
    /\ Len(refacturable_charges) < MaxCategories
    /\ \E l \in CategoryLabels :
          refacturable_charges' = Append(refacturable_charges, [categorie |-> l])
    /\ UNCHANGED <<normVars, charged_amounts, pc, matchVars, outcome, entryVars, moreVars>>

\* the caller puts one more charge in the list it will pass (the matcher
\* reads the label only)
AddPoste ==
    /\ pc = "input"
    /\ Len(charged_amounts) < MaxCharges
    /\ \E l \in ChargeLabels :
          charged_amounts' = Append(charged_amounts, [poste |-> l])
    /\ UNCHANGED <<normVars, refacturable_charges, pc, matchVars, outcome, entryVars, moreVars>>

\* charge_matches = find_similar_charges(refacturable_charges, charged_amounts)
CallFindSimilar ==
    /\ pc = "input"
    /\ matches' = find_similar_charges(refacturable_charges, charged_amounts)
    /\ refacturable_charges' = ChargesAfterStandardize(refacturable_charges)
    /\ charged_amounts' = ChargesAfterStandardize(charged_amounts)
    /\ pc' = "matched"
    /\ UNCHANGED <<normVars, evaluations, outcome, entryVars, moreVars>>

\* lines 188-194 for the next charge of the list
EvaluateNext ==
    /\ pc = "matched"
    /\ ~matches.raised
    /\ Len(evaluations) < Len(charged_amounts)
    /\ LET charge   == charged_amounts[Len(evaluations) + 1]
           std_name == standardize_charge_names(<<charge>>)[1]["standardized_name"]
       IN  evaluations' = Append(evaluations,
               evaluate_charge_conformity(charge, GetMatches(matches.value, std_name)))
    /\ charged_amounts' = [charged_amounts EXCEPT
                              ![Len(evaluations) + 1] = ChargeAfterStandardize(@)]
    /\ UNCHANGED <<normVars, refacturable_charges, pc, matches, outcome, entryVars, moreVars>>

MatchNext == AddCategory \/ AddPoste \/ CallFindSimilar \/ EvaluateNext

SpecMatch == MatchInit /\ [][MatchNext]_vars

(***************************************************************************)
(* Claims about the matcher and the per-charge verdict (SpecMatch)         *)
(***************************************************************************)
\* the key of the i-th charge and of the j-th category of the call
ChargeKey(i)   == KeyTable[NameOf(charged_amounts[i])]
CategoryKey(j) == KeyTable[NameOf(refacturable_charges[j])]

\* the candidate list find_similar_charges returned for the i-th charge
CandidatesOf(i) == GetMatches(matches.value, ChargeKey(i))

\* some candidate of the list scores strictly more than n/d
SomeAbove(cands, n, d) ==
    \E k \in DOMAIN cands : cands[k].similarity.num * d > n * cands[k].similarity.den

\* every candidate of the list scores exactly n/d or less, and one exactly n/d
BestIs(cands, n, d) ==
    /\ ~SomeAbove(cands, n, d)
    /\ \E k \in DOMAIN cands : cands[k].similarity.num * d = n * cands[k].similarity.den

\* C2: the status of a verdict depends on the best candidate's similarity
\* only: no candidate gives "non conforme", a best similarity strictly above
\* 0.8 gives "conforme", any other best similarity (0.8 included) gives
\* "à vérifier".
C2_StatusByBestSimilarity ==
    \A i \in DOMAIN evaluations :
        evaluations[i].conformite =
            IF CandidatesOf(i) = <<>> THEN "non conforme"
            ELSE IF SomeAbove(CandidatesOf(i), 8, 10) THEN "conforme"
            ELSE "à vérifier"

\* a charge whose best candidate scores exactly 0.8 has been evaluated
C2_BestExactlyPoint8 ==
    \E i \in DOMAIN evaluations :
        /\ BestIs(CandidatesOf(i), 8, 10)
        /\ evaluations[i].conformite = "à vérifier"

\* C3: contestable is true without candidates, false when the best
\* similarity is above 0.5, true when it lies in (0.3, 0.5], 0.5 included.
C3_ContestableByBestSimilarity ==
    \A i \in DOMAIN evaluations :
        /\ \A k \in DOMAIN CandidatesOf(i) :
              CandidatesOf(i)[k].similarity.num * 10 > 3 * CandidatesOf(i)[k].similarity.den
        /\ evaluations[i].contestable =
              IF CandidatesOf(i) = <<>> THEN TRUE
              ELSE ~SomeAbove(CandidatesOf(i), 5, 10)

\* a charge whose best candidate scores exactly 0.5 has been evaluated
C3_BestExactlyPoint5 ==
    \E i \in DOMAIN evaluations :
        /\ BestIs(CandidatesOf(i), 5, 10)
        /\ evaluations[i].contestable

\* C4: a category whose key equals the charge's key always gets similarity
\* 1.0 and heads that charge's candidate list, whatever the other categories
\* of the call are.  Stated for calls with a single charge, so that only the
\* categories vary.
C4_ExactMatchRanksFirst ==
    (pc = "matched" /\ Len(charged_amounts) = 1) =>
        \A i \in DOMAIN charged_amounts :
            (\E j \in DOMAIN refacturable_charges : CategoryKey(j) = ChargeKey(i))
            => /\ ~matches.raised
               /\ CandidatesOf(i) # <<>>
               /\ CandidatesOf(i)[1].similarity = [num |-> 1, den |-> 1]
               /\ CandidatesOf(i)[1].refacturable["standardized_name"] = ChargeKey(i)

\* C5: the candidate list returned for a charge holds exactly the categories
\* scoring strictly above 0.3, by non-increasing similarity, ties in the
\* order of the category list.  f maps list positions to category positions.
C5_CandidateList ==
    (pc = "matched" /\ ~matches.raised) =>
        /\ DOMAIN matches.value = {ChargeKey(i) : i \in DOMAIN charged_amounts}
        /\ \A i \in DOMAIN charged_amounts :
            LET list == CandidatesOf(i)
                sim(j) == SimTable[ChargeKey(i), CategoryKey(j)]
            IN  \E f \in [DOMAIN list -> DOMAIN refacturable_charges] :
                  /\ \A k \in DOMAIN list :
                        /\ list[k].refacturable = StdCharge(refacturable_charges[f[k]])
                        /\ list[k].similarity = [num |-> sim(f[k]).num, den |-> sim(f[k]).den]
                  /\ {f[k] : k \in DOMAIN list} =
                        {j \in DOMAIN refacturable_charges : sim(j).num * 10 > 3 * sim(j).den}
                  /\ \A k, m \in DOMAIN list :
                        k < m =>
                          /\ ~SimLess(list[k].similarity, list[m].similarity)
                          /\ SimEq(list[k].similarity, list[m].similarity) => f[k] < f[m]

\* a call returned a list from which a category scoring exactly 0.3 is left
\* out while another category of the call is kept
C5_ExactlyPoint3Excluded ==
    /\ pc = "matched"
    /\ ~matches.raised
    /\ \E i \in DOMAIN charged_amounts : \E j \in DOMAIN refacturable_charges :
          /\ SimTable[ChargeKey(i), CategoryKey(j)].num * 10 =
                3 * SimTable[ChargeKey(i), CategoryKey(j)].den
          /\ Len(CandidatesOf(i)) = 1

\* the distinct words of a key
WordsOf(key) == Range(Split(key))

\* the two keys differ and one is a substring of the other
OneContainsOther(c, r) == c # r /\ (Contains(r, c) \/ Contains(c, r))

\* the length of the longest word the two keys share, 0 if they share none
LongestCommonWord(c, r) ==
    LET lengths == {Len(w) : w \in WordsOf(c) \cap WordsOf(r)}
    IN  IF lengths = {} THEN 0 ELSE CHOOSE n \in lengths : \A m \in lengths : m <= n

\* the entries of the i-th charge's candidate list made from the j-th category
EntriesFor(i, j) ==
    {k \in DOMAIN CandidatesOf(i) :
        CandidatesOf(i)[k].refacturable = StdCharge(refacturable_charges[j])}

\* C21: when the key of a charge and the key of a category differ and one
\* contains the other, find_similar_charges completes without error; the
\* pair is scored (length of the shared whole word) / (length of the longer
\* key), and a pair sharing no whole word scores 0 and gives no candidate.
C21_ContainmentScored ==
    pc = "matched" =>
        \A i \in DOMAIN charged_amounts : \A j \in DOMAIN refacturable_charges :
            OneContainsOther(ChargeKey(i), CategoryKey(j)) =>
                /\ ~matches.raised
                /\ LongestCommonWord(ChargeKey(i), CategoryKey(j)) = 0 => EntriesFor(i, j) = {}
                /\ \A k \in EntriesFor(i, j) :
                      CandidatesOf(i)[k].similarity.num
                          * Max(Len(ChargeKey(i)), Len(CategoryKey(j)))
                      = LongestCommonWord(ChargeKey(i), CategoryKey(j))
                          * CandidatesOf(i)[k].similarity.den

\* the two keys differ and neither is a substring of the other
NeitherContains(c, r) == c # r /\ ~Contains(r, c) /\ ~Contains(c, r)

\* the number of words the two keys share
CommonCount(c, r) == Cardinality(WordsOf(c) \cap WordsOf(r))

\* the larger of the two keys' numbers of distinct words
LargerCount(c, r) == Max(Cardinality(WordsOf(c)), Cardinality(WordsOf(r)))

\* C22: when the key of a charge and the key of a category differ and
\* neither contains the other, the pair scores (words common to both) /
\* (the larger number of distinct words); with no common word the category
\* is no candidate, and it is a candidate exactly when the score is above
\* 0.3.  Every candidate of every list scores more than 0.3 and at most 1.
C22_TokenOverlapScored ==
    (pc = "matched" /\ ~matches.raised) =>
        /\ \A i \in DOMAIN charged_amounts : \A j \in DOMAIN refacturable_charges :
              NeitherContains(ChargeKey(i), CategoryKey(j)) =>
                /\ CommonCount(ChargeKey(i), CategoryKey(j)) = 0 => EntriesFor(i, j) = {}
                /\ (EntriesFor(i, j) # {}) <=>
                      (CommonCount(ChargeKey(i), CategoryKey(j)) * 10
                          > 3 * LargerCount(ChargeKey(i), CategoryKey(j)))
                /\ \A k \in EntriesFor(i, j) :
                      CandidatesOf(i)[k].similarity.num * LargerCount(ChargeKey(i), CategoryKey(j))
                      = CommonCount(ChargeKey(i), CategoryKey(j)) * CandidatesOf(i)[k].similarity.den
        /\ \A i \in DOMAIN charged_amounts : \A k \in DOMAIN CandidatesOf(i) :
              /\ CandidatesOf(i)[k].similarity.num * 10 > 3 * CandidatesOf(i)[k].similarity.den
              /\ CandidatesOf(i)[k].similarity.num <= CandidatesOf(i)[k].similarity.den

\* a charge of five words was matched against a category sharing three of
\* its words (kept at 3/5) and a category sharing none (left out)
C22_ThreeOfFiveWords ==
    /\ pc = "matched"
    /\ ~matches.raised
    /\ charged_amounts = << [poste |-> L_Lot5] >>
    /\ refacturable_charges = << [categorie |-> L_LotZ], [categorie |-> L_Nettoyage] >>
    /\ Len(CandidatesOf(1)) = 1
    /\ CandidatesOf(1)[1].similarity = [num |-> 3, den |-> 5]

\* C29: a charge whose label normalizes to the empty string does not make
\* find_similar_charges fail, for that charge or for the others; it gets an
\* empty candidate list and the verdict "non conforme", contestable.
C29_EmptyKeyUnmatched ==
    pc = "matched" =>
        \A i \in DOMAIN charged_amounts :
            ChargeKey(i) = <<>> =>
                /\ ~matches.raised
                /\ CandidatesOf(i) = <<>>
                /\ i \in DOMAIN evaluations =>
                      /\ evaluations[i].conformite = "non conforme"
                      /\ evaluations[i].contestable

(***************************************************************************)
(* analyse_charges_conformity_local                                        *)
(***************************************************************************)
\* dict.get("montant", 0)
MontantOf(charge) == IF "montant" \in DOMAIN charge THEN charge["montant"] ELSE 0

\* dict.get("poste", "")
PosteOf(charge) == IF "poste" \in DOMAIN charge THEN charge["poste"] ELSE <<>>

\* sum(charge.get("montant", 0) for charge in charges)
RECURSIVE SumMontants(_)
SumMontants(charges) ==
    IF charges = <<>> THEN 0
    ELSE MontantOf(Head(charges)) + SumMontants(Tail(charges))

\* x / montant_total * 100 for montant_total > 0, as an exact fraction
Percent(x, montant_total) == [num |-> 100 * x, den |-> montant_total]

Zero == [num |-> 0, den |-> 1]

\* a mutant of Round: the fraction is truncated, as int() would
RoundDown(frac) == frac.num \div frac.den

\* round() of a fraction with a positive denominator: the nearest integer,
\* a tie going to the even one
Round(frac) ==
    LET q == frac.num \div frac.den
        r == frac.num - q * frac.den
    IN  IF 2 * r < frac.den THEN q
        ELSE IF 2 * r > frac.den THEN q + 1
        ELSE IF q % 2 = 0 THEN q ELSE q + 1

\* lines 200-210: the entry of charges_analysees built from a verdict
VerdictEntry(charge, evaluation, montant_total) ==
    [poste               |-> PosteOf(charge),
     montant             |-> MontantOf(charge),
     pourcentage         |-> IF montant_total > 0
                             THEN Percent(MontantOf(charge), montant_total)
                             ELSE Zero,
     conformite          |-> evaluation.conformite,
     justification       |-> evaluation.justification,
     contestable         |-> evaluation.contestable,
     raison_contestation |-> evaluation.raison_contestation]

\* lines 186-210: the verdict entry of one charge
AnalyseCharge(charge, charge_matches, montant_total) ==
    VerdictEntry(charge,
                 evaluate_charge_conformity(charge,
                     GetMatches(charge_matches,
                                standardize_charge_names(<<charge>>)[1]["standardized_name"])),
                 montant_total)

IsConforme(c)   == c.conformite = "conforme"
IsContestable(c) == c.contestable
IsImportante(c) == c.pourcentage.num > 5 * c.pourcentage.den

\* lines 230-234: one specific recommendation per contestable charge above 5 %
ExaminerRecommandations(charges_importantes) ==
    [i \in DOMAIN charges_importantes |->
        [texte   |-> "Examiner spécifiquement la charge",
         poste   |-> charges_importantes[i].poste,
         montant |-> charges_importantes[i].montant,
         raison  |-> charges_importantes[i].raison_contestation]]

\* lines 262-273: what the first except clause returns
EchecTechnique ==
    [charges_refacturables |-> <<>>,
     charges_facturees     |-> <<>>,
     montant_total         |-> 0,
     analyse_globale       |-> [taux_conformite   |-> 0,
                                conformite_detail |-> "L'analyse a échoué suite à une erreur technique."],
     recommandations       |-> << [texte |-> "Réessayer l'analyse avec des documents au format texte."],
                                  [texte |-> "S'assurer que les documents sont lisibles."] >>]

\* lines 220-242: the recommendations
Recommandations(charges_contestables, montant_contestable, montant_total, taux_conformite) ==
    (IF charges_contestables # <<>>
     THEN << [texte   |-> "Vérifier ou contester les charges potentiellement non conformes",
              nombre  |-> Len(charges_contestables),
              montant |-> montant_contestable,
              part    |-> Percent(montant_contestable, montant_total)] >>
          \o ExaminerRecommandations(SelectSeq(charges_contestables, IsImportante))
     ELSE <<>>)
    \o (IF taux_conformite.num < 70 * taux_conformite.den
        THEN << [texte |-> "Demander au bailleur une justification détaillée"] >>
        ELSE <<>>)

\* lines 244-258: the structure built at the end of the try block
Resultat(refacturables, charges_analysees, montant_total, montant_conforme, taux_conformite, charges_contestables, montant_contestable) ==
    [charges_refacturables |-> refacturables,
     charges_facturees     |-> charges_analysees,
     montant_total         |-> montant_total,
     analyse_globale       |->
         [taux_conformite   |-> Round(taux_conformite),
          conformite_detail |->
              [total        |-> montant_total,
               conforme     |-> montant_conforme,
               taux         |-> Round(taux_conformite),
               contestables |-> Len(charges_contestables),
               contestable  |-> montant_contestable]],
     recommandations       |-> Recommandations(charges_contestables, montant_contestable,
                                               montant_total, taux_conformite)]

\* lines 212-258, given the sums of lines 213 and 219: the division of line
\* 226 raises when there are contestable charges and the total is 0
Conclude(refacturables, charges_analysees, montant_total, montant_conforme, charges_contestables, montant_contestable) ==
    IF charges_contestables # <<>> /\ montant_total = 0
    THEN [raised |-> "ZeroDivisionError", resultat |-> None, returned |-> EchecTechnique]
    ELSE [raised   |-> "",
          resultat |-> Resultat(refacturables, charges_analysees, montant_total,
                                montant_conforme,
                                IF montant_total > 0
                                THEN Percent(montant_conforme, montant_total)
                                ELSE Zero,
                                charges_contestables, montant_contestable),
          returned |-> None]

\* lines 213 and 219: the sums over the compliant and the contestable entries
Summarize(refacturables, charges_analysees, montant_total, charges_conformes, charges_contestables) ==
    Conclude(refacturables, charges_analysees, montant_total,
             SumMontants(charges_conformes), charges_contestables,
             SumMontants(charges_contestables))

\* lines 212 and 218: the compliant and the contestable entries
Classify(refacturables, charges_analysees, montant_total) ==
    Summarize(refacturables, charges_analysees, montant_total,
              SelectSeq(charges_analysees, IsConforme),
              SelectSeq(charges_analysees, IsContestable))

\* lines 184-258, given the matches of line 180 and the total of line 183
AnalyseAll(refacturables, charged, found, montant_total) ==
    IF found.raised
    THEN [raised |-> "TypeError", resultat |-> None, returned |-> EchecTechnique]
    ELSE Classify(refacturables,
                  [i \in DOMAIN charged |-> AnalyseCharge(charged[i], found.value, montant_total)],
                  montant_total)

\* lines 176-278.  raised names the exception thrown inside the try block
\* ("" when none); resultat is the structure built at lines 244-258;
\* returned is the value of the call.  The try block ends at line 258
\* without a return statement, and nothing follows the except clauses, so a
\* call whose try block completes returns None; an exception reaches the
\* first except clause (line 260), which returns the structure of lines
\* 262-273; the second clause (line 276) is never reached.
analyse_charges_conformity_local(refacturables, charged) ==
    AnalyseAll(refacturables, charged,
               find_similar_charges(refacturables, charged),
               SumMontants(charged))

\* the analysis a call produced: the structure it built when the try block
\* completed, the structure the except clause returned otherwise
Produced(o) == IF o.raised = "" THEN o.resultat ELSE o.returned

(***************************************************************************)
(* Spec: analyse_charges_conformity_local called on every list of at most  *)
(* MaxCharges charges (label and amount) and MaxCategories categories.     *)
(***************************************************************************)
\* the amounts of the charges: a credit, a free line and three ordinary
\* lines (1200 out of 1200 + 520 is a share between 69.5 % and 70 %)
Amounts == {-500, 0, 500, 520, 1200}

Init ==
    /\ NormIdle
    /\ refacturable_charges = <<>>
    /\ charged_amounts = <<>>
    /\ pc = "input"
    /\ matches = None
    /\ evaluations = <<>>
    /\ outcome = None
    /\ entry = None
    /\ returned = None
    /\ MoreIdle

\* the caller puts one more category in the list it will pass
AddRefacturable ==
    /\ pc = "input"
    /\ Len(refacturable_charges) < MaxCategories
    /\ \E l \in LocalCategoryLabels :
          refacturable_charges' = Append(refacturable_charges, [categorie |-> l])
    /\ UNCHANGED <<normVars, charged_amounts, pc, matchVars, outcome, entryVars, moreVars>>

\* the caller puts one more charge record in the list it will pass
AddCharge ==
    /\ pc = "input"
    /\ Len(charged_amounts) < MaxCharges
    /\ \E l \in LocalChargeLabels, m \in Amounts :
          charged_amounts' = Append(charged_amounts, [poste |-> l, montant |-> m])
    /\ UNCHANGED <<normVars, refacturable_charges, pc, matchVars, outcome, entryVars, moreVars>>

\* analyse_charges_conformity_local(refacturable_charges, charged_amounts)
AnalyseLocal ==
    /\ pc = "input"
    /\ outcome' = analyse_charges_conformity_local(refacturable_charges, charged_amounts)
    /\ refacturable_charges' = ChargesAfterStandardize(refacturable_charges)
    /\ charged_amounts' = ChargesAfterStandardize(charged_amounts)
    /\ pc' = "done"
    /\ UNCHANGED <<normVars, matchVars, entryVars, moreVars>>

Next == AddRefacturable \/ AddCharge \/ AnalyseLocal

Spec == Init /\ [][Next]_vars

(***************************************************************************)
(* Claims about the local analysis (Spec)                                  *)
(***************************************************************************)
\* the sum of a list of fractions
RECURSIVE FracSum(_)
FracSum(fracs) ==
    IF fracs = <<>> THEN Zero
    ELSE LET rest == FracSum(Tail(fracs))
         IN  [num |-> Head(fracs).num * rest.den + rest.num * Head(fracs).den,
              den |-> Head(fracs).den * rest.den]

Abs(x) == IF x < 0 THEN -x ELSE x

\* r is an integer nearest to n/d
IsNearest(r, n, d) == 2 * Abs(r * d - n) <= Abs(d)

InputTotal == SumMontants(charged_amounts)

Verdicts == Produced(outcome).charges_facturees

Pourcentages == [i \in DOMAIN Verdicts |-> Verdicts[i].pourcentage]

ReportedRate == Produced(outcome).analyse_globale.taux_conformite

ConformeAmount == SumMontants(SelectSeq(Verdicts, IsConforme))

\* C6: for every analysed list of charges the per-charge percentages sum to
\* 100 when the total of the amounts is above 0, and are all exactly 0 when
\* the total is 0.
C6_PercentagesSumTo100 ==
    pc = "done" =>
        /\ InputTotal > 0 => FracSum(Pourcentages).num = 100 * FracSum(Pourcentages).den
        /\ InputTotal = 0 => \A i \in DOMAIN Pourcentages : Pourcentages[i].num = 0

\* C7: when the amounts sum to 0 the analysis divides by nothing: no
\* division-by-zero error occurs, contestable charges or not, and a verdict
\* is returned for every input charge.
C7_NoDivisionByZero ==
    (pc = "done" /\ InputTotal = 0) =>
        /\ outcome.raised # "ZeroDivisionError"
        /\ Len(Verdicts) = Len(charged_amounts)

Scenario1 ==
    /\ charged_amounts = << [poste |-> L_NETTOYAGE, montant |-> 1200],
                            [poste |-> L_EAU, montant |-> 500] >>
    /\ refacturable_charges = << [categorie |-> L_Nettoyage], [categorie |-> L_Chauffage] >>

C9_RateWithin0And100 ==
    pc = "done" => ReportedRate \in 0..100

\* the recommendation of lines 237-241 is in the list
HasStanding(recs) ==
    \E i \in DOMAIN recs : recs[i].texte = "Demander au bailleur une justification détaillée"

\* C23: the result of the local analysis contains the standing
\* recommendation exactly when the rate it reports in
\* analyse_globale.taux_conformite is below 70.
C23_StandingIffReportedBelow70 ==
    pc = "done" =>
        (HasStanding(Produced(outcome).recommandations) <=> ReportedRate < 70)

\* the verdicts are those of the charges: one per charge, in the order of
\* the list, each with the label and the amount of its charge
OnePerCharge(verdicts, charged) ==
    /\ Len(verdicts) = Len(charged)
    /\ \A i \in DOMAIN verdicts :
          /\ verdicts[i].poste = PosteOf(charged[i])
          /\ verdicts[i].montant = MontantOf(charged[i])

\* two charges whose labels have the same key got the same status and flag
SameKeySameVerdict(verdicts, charged) ==
    \A i, j \in DOMAIN verdicts :
        KeyTable[NameOf(charged[i])] = KeyTable[NameOf(charged[j])]
        => /\ verdicts[i].conformite = verdicts[j].conformite
           /\ verdicts[i].contestable = verdicts[j].contestable

\* C28: charges_facturees of the result of the local analysis holds exactly
\* one verdict per input charge, in input order, with that charge's poste
\* and montant; montant_total is the sum of the montant of those verdicts;
\* two charges whose labels normalize to the same key get the same status
\* and the same contestable flag.
C28_OneVerdictPerCharge ==
    pc = "done" =>
        /\ OnePerCharge(Verdicts, charged_amounts)
        /\ Produced(outcome).montant_total = SumMontants(Verdicts)
        /\ SameKeySameVerdict(Verdicts, charged_amounts)

\* the step is one call of analyse_charges_conformity_local, which calls
\* find_similar_charges on the same two lists (line 178)
IsLocalCall == pc = "input" /\ pc' = "done"

\* C20: a call of analyse_charges_conformity_local, with the call of
\* find_similar_charges it makes, leaves the two lists it was given and every
\* record in them as they were (same length, same order, no key added, no
\* value changed), whether it returns an analysis or its failure structure,
\* and writes nothing but its own result: nothing else is kept for a later call.
C20_InputsLeftUnchanged ==
    [][IsLocalCall =>
          /\ refacturable_charges' = refacturable_charges
          /\ charged_amounts' = charged_amounts
          /\ UNCHANGED <<normVars, matchVars, entryVars, moreVars>>]_vars

\* a call that failed in find_similar_charges after both lists were
\* standardized: the lists are still the two records that were passed
C20_FailedCallKeptInputs ==
    /\ pc = "done"
    /\ outcome.raised = "TypeError"
    /\ refacturable_charges = << [categorie |-> L_Eau] >>
    /\ charged_amounts = << [poste |-> L_EauChaude, montant |-> 500] >>

(***************************************************************************)
(* Values exchanged with the oracle and returned by the entry points.      *)
(* A Python value carries its type: None, a number, a str, a list or a     *)
(* dict (a function from its keys to values).  The records of a list of    *)
(* charges or categories stay the records used above.                      *)
(***************************************************************************)
PyNone        == [t |-> "None"]
PyNum(n)      == [t |-> "number", n |-> n]
PyStr(s)      == [t |-> "str", s |-> s]
PyList(items) == [t |-> "list", items |-> items]
PyDict(d)     == [t |-> "dict", d |-> d]
\* the call did not return: the exception left the function
PyRaised(e)   == [t |-> "raised", e |-> e]
\* no call has been made yet
Pending       == [t |-> "pending"]

\* {}
EmptyDict == PyDict(<<>>)

\* bool(v)
Truthy(v) ==
    CASE v.t = "None"   -> FALSE
      [] v.t = "number" -> v.n # 0
      [] v.t = "str"    -> v.s # ""
      [] v.t = "list"   -> v.items # <<>>
      [] v.t = "dict"   -> DOMAIN v.d # {}

\* `key in v` raises TypeError when v is None or a number
InRaises(v) == v.t \in {"None", "number"}

\* `key in v` for a dict; a list of records holds no str
In(key, v) == v.t = "dict" /\ key \in DOMAIN v.d

\* d[key] = value
SetKey(d, key, value) ==
    [k \in DOMAIN d \cup {key} |-> IF k = key THEN value ELSE d[k]]

\* d.get(key, default)
Get(d, key, default) == IF key \in DOMAIN d THEN d[key] ELSE default

\* a str read from a reply is the model's string, any other value stays tagged
Native(v) == IF v.t = "str" THEN v.s ELSE v

\* src/config.py
DEFAULT_CONFORMITY_LEVEL == 50

(***************************************************************************)
(* The oracle.  send_openai_request returns the text of the reply, or None *)
(* when the request failed; parse_json_response turns it into a value.     *)
(***************************************************************************)
NoResponse  == [text |-> "None"]        \* send_openai_request returned None
InvalidJson == [text |-> "invalid"]     \* a text that json.loads rejects
Json(v)     == [text |-> "json", value |-> v]

\* src/api/openai_client.py lines 92-112
parse_json_response(response_text, default_value) ==
    IF response_text.text = "None" THEN default_value
    ELSE IF response_text.text = "invalid" THEN default_value
    ELSE response_text.value

\* JSON values an oracle can answer a conformity request with
J_Null        == PyNone
J_EmptyObject == EmptyDict
J_Array       == PyList(<< [poste |-> L_EAU, montant |-> 500] >>)
\* the format the prompt asks for (lines 326-349)
J_Full ==
    PyDict([charges_facturees |->
                PyList(<< [poste               |-> L_EAU,
                           montant             |-> 500,
                           pourcentage         |-> [num |-> 100, den |-> 1],
                           conformite          |-> "conforme",
                           justification       |-> "prévue au bail",
                           contestable         |-> FALSE,
                           raison_contestation |-> ""] >>),
            montant_total   |-> PyNum(500),
            analyse_globale |-> PyDict([taux_conformite   |-> PyNum(100),
                                        conformite_detail |-> PyStr("toutes les charges sont prévues")]),
            recommandations |-> PyList(<< "Aucune action" >>)])
\* an object with other keys than the ones asked for
J_Partial ==
    PyDict([analyse_globale |-> PyDict([taux_conformite |-> PyNum(80)]),
            commentaire     |-> PyStr("analyse sommaire")])
\* the keys asked for, with null values
J_NullFields ==
    PyDict([charges_facturees |-> PyNone,
            montant_total     |-> PyNone,
            analyse_globale   |-> PyNone,
            recommandations   |-> PyNone])
\* the format of the simplified request (lines 554-557)
J_Simple ==
    PyDict([taux_conformite |-> PyNum(85),
            charges         |-> PyList(<< PyDict([conformite    |-> PyStr("non conforme"),
                                                  justification |-> PyStr("hors bail")]) >>),
            recommandations |-> PyList(<< "Contester" >>)])

ConformityReplies ==
    {NoResponse, InvalidJson} \cup
    {Json(v) : v \in {J_Null, J_EmptyObject, J_Array, J_Full, J_Partial, J_NullFields, J_Simple}}

\* replies to the request for the list of charges (lines 771-786)
RecoveryReplies ==
    {NoResponse,
     Json(PyList(<<>>)),
     Json(PyList(<< [poste |-> L_EAU, montant |-> 500] >>)),
     Json(PyDict([charges |-> PyList(<< [poste |-> L_NETTOYAGE, montant |-> 1200] >>)])),
     Json(PyList(<< [poste |-> L_EAU, montant |-> 500], [montant |-> 1200] >>)),
     Json(PyList(<< [libelle |-> L_NETTOYAGE] >>)),
     Json(PyNone)}

(***************************************************************************)
(* The analysis entry points of conformity_analyzer.py                     *)
(***************************************************************************)
\* the structure of a local analysis as a Python value
PyResult(r) ==
    PyDict([charges_refacturables |-> PyList(r.charges_refacturables),
            charges_facturees     |-> PyList(r.charges_facturees),
            montant_total         |-> PyNum(r.montant_total),
            analyse_globale       |->
                PyDict([taux_conformite   |-> PyNum(r.analyse_globale.taux_conformite),
                        conformite_detail |-> PyStr(r.analyse_globale.conformite_detail)]),
            recommandations       |-> PyList(r.recommandations)])

\* the value of a call of analyse_charges_conformity_local whose outcome is o
PyReturned(o) == IF o.raised = "" THEN PyNone ELSE PyResult(o.returned)

\* the value of analyse_charges_conformity_local(refacturables, charged)
LocalResult(refacturables, charged) ==
    PyReturned(analyse_charges_conformity_local(refacturables, charged))

\* the fallback structures of lines 375-384, 399-408, 506-515, 627-636 and
\* of app.py lines 155-167: the charges as given, the default rate
MinimalStructure(refacturables, charged, detail, recommandations) ==
    PyDict([charges_refacturables |-> PyList(refacturables),
            charges_facturees     |-> PyList(charged),
            montant_total         |-> PyNum(SumMontants(charged)),
            analyse_globale       |->
                PyDict([taux_conformite   |-> PyNum(DEFAULT_CONFORMITY_LEVEL),
                        conformite_detail |-> PyStr(detail)]),
            recommandations       |-> PyList(recommandations)])

\* lines 662-674 and src/analysis/__init__.py lines 78-90
EmptyStructure ==
    PyDict([charges_refacturables |-> PyList(<<>>),
            charges_facturees     |-> PyList(<<>>),
            montant_total         |-> PyNum(0),
            analyse_globale       |->
                PyDict([taux_conformite   |-> PyNum(0),
                        conformite_detail |-> PyStr("L'analyse a échoué: impossible de se connecter à l'API OpenAI.")]),
            recommandations       |-> PyList(<< "Vérifiez votre clé API OpenAI et votre connexion internet.",
                                                "Essayez à nouveau plus tard." >>)])

\* `result if result else other`
OrElse(result, other) == IF Truthy(result) THEN result ELSE other

\* lines 369-384 and 390-408: the local analysis if it returned something,
\* the minimal structure otherwise
LocalOrMinimal(refacturables, charged, detail, recommandations) ==
    OrElse(LocalResult(refacturables, charged),
           MinimalStructure(refacturables, charged, detail, recommandations))

\* lines 280-408.  A truthy reply that is not a dict raises TypeError at
\* line 364 and reaches the except clause (lines 386-408), which does what
\* the else branch of lines 366-384 does.
analyse_charges_conformity(refacturables, charged, response_text) ==
    LET result == parse_json_response(response_text, EmptyDict)
    IN  IF Truthy(result) /\ result.t = "dict"
        THEN PyDict(SetKey(result.d, "charges_refacturables", PyList(refacturables)))
        ELSE LocalOrMinimal(refacturables, charged,
                 "Impossible d'analyser la conformité en raison d'une erreur.",
                 << "Vérifier manuellement la conformité des charges." >>)

\* a mutant of SimplifiedCharge: contestable is written False on every entry,
\* as the branches of lines 596-620 do
SimplifiedChargeNeverContestable(charge, montant_total, conformite, justification, contestable, raison) ==
    [poste               |-> PosteOf(charge),
     montant             |-> MontantOf(charge),
     pourcentage         |-> IF montant_total > 0
                             THEN Percent(MontantOf(charge), montant_total)
                             ELSE Zero,
     conformite          |-> conformite,
     justification       |-> justification,
     contestable         |-> FALSE,
     raison_contestation |-> raison]

\* lines 587-620: the entries of charges_facturees
SimplifiedCharge(charge, montant_total, conformite, justification, contestable, raison) ==
    [poste               |-> PosteOf(charge),
     montant             |-> MontantOf(charge),
     pourcentage         |-> IF montant_total > 0
                             THEN Percent(MontantOf(charge), montant_total)
                             ELSE Zero,
     conformite          |-> conformite,
     justification       |-> justification,
     contestable         |-> contestable,
     raison_contestation |-> raison]

\* lines 517-636.  result.get raises AttributeError when the reply is not a
\* dict, and so does an entry of result["charges"] that is not a dict: the
\* except clause returns the minimal structure.
simplify_and_retry_conformity(refacturables, charged, response_text) ==
    LET result == parse_json_response(response_text,
                      PyDict([taux_conformite |-> PyNum(DEFAULT_CONFORMITY_LEVEL),
                              detail          |-> PyStr("Analyse simplifiée suite à des erreurs techniques."),
                              recommandations |-> PyList(<< "Consulter un expert pour une analyse complète." >>)]))
        montant_total == SumMontants(charged)
        secours == MinimalStructure(refacturables, charged,
                       "Analyse incomplète suite à des erreurs techniques répétées.",
                       << "Consulter un expert pour une analyse complète des charges." >>)
        evaluated == result.t = "dict" /\ "charges" \in DOMAIN result.d
                     /\ result.d["charges"].t = "list"
        answers == IF evaluated THEN result.d["charges"].items ELSE <<>>
        charges_facturees ==
            [i \in DOMAIN charged |->
                IF i <= Len(answers)
                THEN SimplifiedCharge(charged[i], montant_total,
                         Native(Get(answers[i].d, "conformite", PyStr("à vérifier"))),
                         Native(Get(answers[i].d, "justification", PyStr(""))),
                         Get(answers[i].d, "conformite", PyStr("")) = PyStr("non conforme"),
                         Native(Get(answers[i].d, "justification", PyStr(""))))
                ELSE SimplifiedCharge(charged[i], montant_total,
                         "à vérifier", "Analyse incomplète", FALSE, "")]
    IN  IF result.t # "dict" THEN secours
        ELSE IF \E i \in DOMAIN charged : i <= Len(answers) /\ answers[i].t # "dict"
        THEN secours
        ELSE PyDict([charges_refacturables |-> PyList(refacturables),
                     charges_facturees     |-> PyList(charges_facturees),
                     montant_total         |-> PyNum(montant_total),
                     analyse_globale       |->
                         PyDict([taux_conformite   |-> Get(result.d, "taux_conformite", PyNum(DEFAULT_CONFORMITY_LEVEL)),
                                 conformite_detail |-> Get(result.d, "detail", PyStr("Analyse simplifiée suite à des erreurs techniques."))]),
                     recommandations       |-> Get(result.d, "recommandations",
                                                   PyList(<< "Consulter un expert pour une analyse complète." >>))])

\* line 489: the reply gave a result
Usable(response_text) == Truthy(parse_json_response(response_text, EmptyDict))

\* lines 410-515.  response_text answers the request of line 479,
\* simplified_text the request of simplify_and_retry_conformity.
retry_analyse_conformity(refacturables, charged, response_text, simplified_text) ==
    LET result == parse_json_response(response_text, EmptyDict)
    IN  IF Usable(response_text)
        THEN IF result.t = "dict"
             THEN PyDict(SetKey(result.d, "charges_refacturables", PyList(refacturables)))
             ELSE LocalOrMinimal(refacturables, charged,
                      "Analyse partielle suite à une erreur technique.",
                      << "Consulter un expert pour une analyse plus approfondie." >>)
        ELSE simplify_and_retry_conformity(refacturables, charged, simplified_text)

\* lines 812-817: the five fields written on every entry of the recovery
\* reply; the entry keeps the keys it came with and gets no other
RecoveredCharge(charge, total) ==
    LET written == {"pourcentage", "conformite", "contestable",
                    "justification", "raison_contestation"}
    IN  [k \in DOMAIN charge \cup written |->
            IF k = "pourcentage"
            THEN IF total > 0 THEN Percent(MontantOf(charge), total) ELSE Zero
            ELSE IF k = "conformite" THEN "à vérifier"
            ELSE IF k = "contestable" THEN FALSE
            ELSE IF k = "justification" THEN "Analyse incomplète"
            ELSE IF k = "raison_contestation" THEN ""
            ELSE charge[k]]

\* lines 798-805: the list found in the recovery reply.  The replies in use
\* have at most one key holding a list.
ExtractedCharges(charges_result) ==
    IF charges_result.t = "list" THEN charges_result.items
    ELSE LET list_keys == {k \in DOMAIN charges_result.d : charges_result.d[k].t = "list"}
         IN  IF list_keys = {} THEN <<>>
             ELSE charges_result.d[CHOOSE k \in list_keys : TRUE].items

\* line 767, for a reply the test does not raise on
LacksCharges(result) ==
    ~(In("charges_facturees", result) /\ Truthy(result.d["charges_facturees"]))

\* the request of line 788 is made
RecoveryAsked(response_text) ==
    LET result == parse_json_response(response_text, EmptyDict)
    IN  ~InRaises(result) /\ LacksCharges(result)

\* lines 638-829.  client_given: the caller passed a client; client_available:
\* get_openai_client succeeds.  The try block of line 652 has no except
\* clause in the source, so an exception leaves the function.
final_attempt_complete_analysis(client_given, client_available, response_text, charges_response) ==
    LET result         == parse_json_response(response_text, EmptyDict)
        charges_result == parse_json_response(charges_response, PyList(<<>>))
        extracted      == ExtractedCharges(charges_result)
        total          == SumMontants(extracted)
        recovered      == [i \in DOMAIN extracted |-> RecoveredCharge(extracted[i], total)]
        with_charges   == SetKey(SetKey(result.d, "charges_facturees", PyList(recovered)),
                                 "montant_total", PyNum(total))
        analyse_globale == Get(with_charges, "analyse_globale", EmptyDict)
        updated ==
            SetKey(with_charges, "analyse_globale",
                   PyDict(SetKey(SetKey(analyse_globale.d, "taux_conformite",
                                        PyNum(DEFAULT_CONFORMITY_LEVEL)),
                                 "conformite_detail",
                                 PyStr("Analyse partielle des charges facturées. Vérification manuelle recommandée."))))
    IN  IF ~client_given /\ ~client_available THEN EmptyStructure
        ELSE IF InRaises(result) THEN PyRaised("TypeError")
        ELSE IF ~LacksCharges(result) THEN result
        ELSE IF charges_result.t \notin {"list", "dict"} THEN PyRaised("TypeError")
        ELSE IF extracted = <<>> THEN result
        ELSE IF result.t # "dict" THEN PyRaised("TypeError")
        ELSE IF analyse_globale.t # "dict" THEN PyRaised("TypeError")
        ELSE PyDict(updated)

(***************************************************************************)
(* The entry points of src/analysis/__init__.py and src/app.py.  The       *)
(* extraction stages are represented by what they produced: the lists      *)
(* refacturables and charged.                                              *)
(***************************************************************************)
\* src/analysis/__init__.py line 58: the test on the first analysis;
\* "raised" when result["analyse_globale"] is None or a number
RateCheck(result) ==
    IF Truthy(result) /\ In("analyse_globale", result)
    THEN IF InRaises(result.d["analyse_globale"]) THEN "raised"
         ELSE IF In("taux_conformite", result.d["analyse_globale"]) THEN "complete"
         ELSE "incomplete"
    ELSE "incomplete"

\* src/analysis/__init__.py lines 58-75: what follows the first analysis
AfterFirstAnalysis(result, retried, final) ==
    LET check == RateCheck(result)
    IN  IF check = "raised" THEN final
        ELSE IF check = "complete" THEN result
        ELSE retried

\* src/analysis/__init__.py lines 7-90
analyze_with_openai(client_available, refacturables, charged, response_text, retry_text, simplified_text, final_text, charges_response) ==
    IF ~client_available THEN EmptyStructure
    ELSE AfterFirstAnalysis(
             analyse_charges_conformity(refacturables, charged, response_text),
             retry_analyse_conformity(refacturables, charged, retry_text, simplified_text),
             final_attempt_complete_analysis(TRUE, TRUE, final_text, charges_response))

\* src/app.py lines 10-175.  files_given: both lists of files are non-empty;
\* bail_text_ok: at least 100 characters were read from the lease.
\* src/app.py lines 169-175: the test on the result raises TypeError when
\* result["analyse_globale"] is None or a number
ReportRate(result) ==
    IF In("analyse_globale", result) /\ InRaises(result.d["analyse_globale"])
    THEN PyRaised("TypeError")
    ELSE result

analyze_commercial_lease_charges(files_given, bail_text_ok, client_available, refacturables, charged, response_text) ==
    IF ~files_given THEN PyNone
    ELSE IF ~bail_text_ok THEN PyNone
    ELSE IF refacturables = <<>> THEN PyNone
    ELSE IF charged = <<>> THEN PyNone
    ELSE ReportRate(
             OrElse(OrElse(LocalResult(refacturables, charged),
                           IF client_available
                           THEN analyse_charges_conformity(refacturables, charged, response_text)
                           ELSE PyNone),
                    MinimalStructure(refacturables, charged,
                        "Analyse automatique limitée. Vérification manuelle recommandée.",
                        << "Vérifier manuellement la conformité de chaque poste de charge.",
                           "Consulter un expert pour une analyse complète." >>)))

(***************************************************************************)
(* SpecEntry: each entry point called once, on lists of categories and     *)
(* charges as the extraction stages can produce them, with every reply of  *)
(* the oracle to each request it makes.                                    *)
(***************************************************************************)
EntryCategoryLists ==
    { <<>>,
      << [categorie |-> L_Nettoyage], [categorie |-> L_Chauffage] >>,
      << [categorie |-> L_Eau] >> }

EntryChargeLists ==
    { <<>>,
      << [poste |-> L_NETTOYAGE, montant |-> 1200], [poste |-> L_EAU, montant |-> 500] >>,
      << [poste |-> L_EAU, montant |-> 0] >>,
      << [poste |-> L_EauChaude, montant |-> 500] >> }

EntryInit ==
    /\ NormIdle
    /\ refacturable_charges \in EntryCategoryLists
    /\ charged_amounts \in EntryChargeLists
    /\ pc = "input"
    /\ matches = None
    /\ evaluations = <<>>
    /\ outcome = None
    /\ entry = None
    /\ returned = Pending
    /\ MoreIdle

\* the replies to a request: every reply when the call makes the request,
\* none to choose otherwise
RepliesIf(asked, replies) == IF asked THEN replies ELSE {NoResponse}

\* what a call was made with: the state of the files and of the client,
\* and the oracle's replies in the order of the requests
Call(files_given, bail_text_ok, client_available, replies) ==
    [files_given      |-> files_given,
     bail_text_ok     |-> bail_text_ok,
     client_available |-> client_available,
     replies          |-> replies]

Return(name, value, made) ==
    /\ pc = "input"
    /\ entry' = name
    /\ returned' = value
    /\ call' = made
    /\ pc' = "returned"
    /\ UNCHANGED <<normVars, inputVars, matchVars, outcome, extractVars, tableVars, imageVars>>

CallAnalyseChargesConformity ==
    \E r \in ConformityReplies :
        Return("analyse_charges_conformity",
               analyse_charges_conformity(refacturable_charges, charged_amounts, r),
               Call(TRUE, TRUE, TRUE, <<r>>))

CallRetryAnalyseConformity ==
    \E r1 \in ConformityReplies :
    \E r2 \in RepliesIf(~Usable(r1), ConformityReplies) :
        Return("retry_analyse_conformity",
               retry_analyse_conformity(refacturable_charges, charged_amounts, r1, r2),
               Call(TRUE, TRUE, TRUE, <<r1, r2>>))

CallSimplifyAndRetryConformity ==
    \E r \in ConformityReplies :
        Return("simplify_and_retry_conformity",
               simplify_and_retry_conformity(refacturable_charges, charged_amounts, r),
               Call(TRUE, TRUE, TRUE, <<r>>))

CallFinalAttempt ==
    \E given, available \in BOOLEAN :
    \E r1 \in RepliesIf(given \/ available, ConformityReplies) :
    \E r2 \in RepliesIf((given \/ available) /\ RecoveryAsked(r1), RecoveryReplies) :
        Return("final_attempt_complete_analysis",
               final_attempt_complete_analysis(given, available, r1, r2),
               Call(TRUE, TRUE, given \/ available, <<r1, r2>>))

CallAnalyzeWithOpenAI ==
    \E available \in BOOLEAN :
    \E r1 \in RepliesIf(available, ConformityReplies) :
    \E first \in {RateCheck(analyse_charges_conformity(refacturable_charges, charged_amounts, r1))} :
    \E r2 \in RepliesIf(available /\ first = "incomplete", ConformityReplies) :
    \E r3 \in RepliesIf(available /\ first = "incomplete" /\ ~Usable(r2), ConformityReplies) :
    \E r4 \in RepliesIf(available /\ first = "raised", ConformityReplies) :
    \E r5 \in RepliesIf(available /\ first = "raised" /\ RecoveryAsked(r4), RecoveryReplies) :
        Return("analyze_with_openai",
               analyze_with_openai(available, refacturable_charges, charged_amounts,
                                   r1, r2, r3, r4, r5),
               Call(TRUE, TRUE, available, <<r1, r2, r3, r4, r5>>))

CallAnalyzeCommercialLeaseCharges ==
    \E files, text, available \in BOOLEAN :
    \E r \in RepliesIf(files /\ text /\ available, ConformityReplies) :
        Return("analyze_commercial_lease_charges",
               analyze_commercial_lease_charges(files, text, available,
                                                refacturable_charges, charged_amounts, r),
               Call(files, text, available, <<r>>))

EntryNext ==
    \/ CallAnalyseChargesConformity
    \/ CallRetryAnalyseConformity
    \/ CallSimplifyAndRetryConformity
    \/ CallFinalAttempt
    \/ CallAnalyzeWithOpenAI
    \/ CallAnalyzeCommercialLeaseCharges

SpecEntry == EntryInit /\ [][EntryNext]_vars

(***************************************************************************)
(* Claims about the entry points (SpecEntry)                               *)
(***************************************************************************)
\* the AnalysisResult structure: the five keys, none missing or null, each
\* of its type
IsAnalysisResult(v) ==
    /\ v.t = "dict"
    /\ {"charges_refacturables", "charges_facturees", "montant_total",
        "analyse_globale", "recommandations"} \subseteq DOMAIN v.d
    /\ v.d["charges_refacturables"].t = "list"
    /\ v.d["charges_facturees"].t = "list"
    /\ v.d["montant_total"].t = "number"
    /\ v.d["analyse_globale"].t = "dict"
    /\ {"taux_conformite", "conformite_detail"} \subseteq DOMAIN v.d["analyse_globale"].d
    /\ v.d["analyse_globale"].d["taux_conformite"].t # "None"
    /\ v.d["analyse_globale"].d["conformite_detail"].t # "None"
    /\ v.d["recommandations"].t = "list"

\* C10: every value an analysis entry point returns, on any path and for any
\* reply of the oracle, is a structure with the keys charges_refacturables,
\* charges_facturees, montant_total, analyse_globale (with taux_conformite
\* and conformite_detail) and recommandations; it is never None and no key
\* is missing or null.
C10_ReturnsAnalysisResult ==
    (pc = "returned" /\ returned.t # "raised") => IsAnalysisResult(returned)

\* the explicit empty result: a well-formed structure, rate 0, at least one
\* recommendation
IsEmptyResult(v) ==
    /\ IsAnalysisResult(v)
    /\ v.d["analyse_globale"].d["taux_conformite"] = PyNum(0)
    /\ v.d["recommandations"].items # <<>>

\* the extraction stages of the call left no category or no charge
NothingExtracted ==
    refacturable_charges = <<>> \/ charged_amounts = <<>>

\* C11: when the extraction tiers of analyze_commercial_lease_charges leave
\* an empty list of charges or an empty list of categories, the call returns
\* a well-formed AnalysisResult with compliance rate 0 and at least one
\* recommendation; it neither raises nor returns None.
C11_EmptyResultIsExplicit ==
    (/\ pc = "returned"
     /\ entry = "analyze_commercial_lease_charges"
     /\ call.files_given /\ call.bail_text_ok
     /\ NothingExtracted)
    => IsEmptyResult(returned)

\* the reply is a JSON object of the shape the conformity request asks for
\* (the keys of the prompt; charges_refacturables is added by the caller)
MatchesExpectedShape(response_text) ==
    /\ response_text.text = "json"
    /\ response_text.value.t = "dict"
    /\ IsAnalysisResult(PyDict(SetKey(response_text.value.d,
                                      "charges_refacturables", PyList(<<>>))))

\* the next tier of analyse_charges_conformity: the local analysis, or the
\* default structure when the local analysis gave nothing
NextTier ==
    LocalOrMinimal(refacturable_charges, charged_amounts,
        "Impossible d'analyser la conformité en raison d'une erreur.",
        << "Vérifier manuellement la conformité des charges." >>)

\* C14: when the oracle's reply to the conformity request is empty, is not
\* valid JSON, or is JSON that does not match the expected result shape,
\* analyse_charges_conformity returns the result of the next tier (the local
\* analysis, or the default structure); it does not raise and does not
\* return the mismatching reply.
C14_MismatchingReplyDiscarded ==
    (/\ pc = "returned"
     /\ entry = "analyse_charges_conformity"
     /\ ~MatchesExpectedShape(call.replies[1]))
    => returned = NextTier

\* every entry of the list has the description key and the amount key
EntriesValidated(items) ==
    \A i \in DOMAIN items : {"poste", "montant"} \subseteq DOMAIN items[i]

\* C12: every charge record the program takes from a reply of the oracle
\* has been validated: an entry lacking the key poste or the key montant is
\* discarded or repaired, and never appears in a returned result.  Here for
\* the final unified attempt, whose recovery request asks the oracle for the
\* list of charges.
C12_OracleEntriesValidated ==
    (/\ pc = "returned"
     /\ entry = "final_attempt_complete_analysis"
     /\ call.client_available
     /\ RecoveryAsked(call.replies[1])
     /\ In("charges_facturees", returned)
     /\ returned.d["charges_facturees"].t = "list")
    => EntriesValidated(returned.d["charges_facturees"].items)

\* the verdicts of the list agree with themselves: none is both "conforme"
\* and contestable, every "non conforme" one is contestable
Coherent(items) ==
    \A i \in DOMAIN items :
        {"conformite", "contestable"} \subseteq DOMAIN items[i] =>
            /\ ~(items[i].conformite = "conforme" /\ items[i].contestable)
            /\ items[i].conformite = "non conforme" => items[i].contestable

\* the value has a list of charges_facturees
HasChargeList(v) ==
    In("charges_facturees", v) /\ v.d["charges_facturees"].t = "list"

\* the verdicts the local analysis builds for the lists of the call
LocalVerdicts ==
    Produced(analyse_charges_conformity_local(refacturable_charges,
                                              charged_amounts)).charges_facturees

\* C27: in the result of the local analysis, of the simplified oracle retry
\* and of the recovery of the final unified attempt, no charge is both
\* "conforme" and contestable, and every "non conforme" charge is
\* contestable.
C27_VerdictsCoherent ==
    pc = "returned" =>
        /\ Coherent(LocalVerdicts)
        /\ (entry = "simplify_and_retry_conformity" /\ HasChargeList(returned))
               => Coherent(returned.d["charges_facturees"].items)
        /\ (/\ entry = "final_attempt_complete_analysis"
            /\ call.client_available
            /\ RecoveryAsked(call.replies[1])
            /\ HasChargeList(returned))
               => Coherent(returned.d["charges_facturees"].items)

\* the simplified retry returned a charge the oracle judged "non conforme",
\* marked contestable
C27_SimplifiedNonConforme ==
    /\ pc = "returned"
    /\ entry = "simplify_and_retry_conformity"
    /\ HasChargeList(returned)
    /\ \E i \in DOMAIN returned.d["charges_facturees"].items :
          /\ "conformite" \in DOMAIN returned.d["charges_facturees"].items[i]
          /\ returned.d["charges_facturees"].items[i].conformite = "non conforme"
          /\ returned.d["charges_facturees"].items[i].contestable

\* the fields of a verdict that src/app.py lines 278-283 read
VerdictFields == {"poste", "montant", "pourcentage", "conformite", "contestable"}

\* C30: in every result analyze_commercial_lease_charges hands to the
\* display code of main, the minimal default structures included, each
\* entry of charges_facturees carries the fields poste, montant,
\* pourcentage, conformite and contestable.
C30_DisplayedEntriesCarryVerdict ==
    (/\ pc = "returned"
     /\ entry = "analyze_commercial_lease_charges"
     /\ HasChargeList(returned))
    => \A i \in DOMAIN returned.d["charges_facturees"].items :
           VerdictFields \subseteq DOMAIN returned.d["charges_facturees"].items[i]

(***************************************************************************)
(* The specifications below leave the variables of the analysis alone.     *)
(***************************************************************************)
coreVars == <<normVars, inputVars, pc, matchVars, outcome, entryVars, call>>

CoreIdle ==
    /\ NormIdle
    /\ refacturable_charges = <<>>
    /\ charged_amounts = <<>>
    /\ pc = "idle"
    /\ matches = None
    /\ evaluations = <<>>
    /\ outcome = None
    /\ entry = None
    /\ returned = None
    /\ call = None

(***************************************************************************)
(* convert_table_data_to_charges (src/utils/table_detector.py).  A row of  *)
(* table_data is the sequence of its cells: cell j of a row is the value   *)
(* of its key col_{j-1}; every row of a table has the keys of row 0, as    *)
(* ocr_table_by_grid builds them.  A column that was not found (None) is   *)
(* column 0.  An amount is the exact decimal num / den.                    *)
(***************************************************************************)
\* line 289
desc_keywords ==
    { <<"d","é","s","i","g","n","a","t","i","o","n">>,
      <<"d","e","s","i","g","n","a","t","i","o","n">>,
      <<"l","i","b","e","l","l","é">>,
      <<"l","i","b","e","l","l","e">>,
      <<"d","e","s","c">>, <<"p","o","s","t","e">> }

\* line 291
amount_keywords ==
    { <<"m","o","n","t","a","n","t">>, <<"t","o","t","a","l">>, <<"h","t">>,
      <<"t","t","c">>, <<"s","o","m","m","e">>, <<"e","u","r","o","s">> }

\* line 327
total_labels ==
    { <<"t","o","t","a","l">>, <<"s","o","u","s","-","t","o","t","a","l">>,
      <<"s","o","m","m","e">>, <<"m","o","n","t","a","n","t">> }

\* any(keyword in value for keyword in keywords), value being lowercased
HasKeyword(value, keywords) == \E keyword \in keywords : Contains(Lower(value), keyword)


\* lines 286-291: the scan of the header row, a later column overwriting an
\* earlier one
RECURSIVE HeaderScan(_, _, _, _)
HeaderScan(header_row, col, desc_col, amount_col) ==
    IF col > Len(header_row)
    THEN [desc_col |-> desc_col, amount_col |-> amount_col]
    ELSE IF HasKeyword(header_row[col], desc_keywords)
         THEN HeaderScan(header_row, col + 1, col, amount_col)
         ELSE IF HasKeyword(header_row[col], amount_keywords)
              THEN HeaderScan(header_row, col + 1, desc_col, col)
              ELSE HeaderScan(header_row, col + 1, desc_col, amount_col)

\* re.search(r'\d+([,.]\d+)?', text) finds something: text holds a digit
HasDigit(text) == \E i \in DOMAIN text : text[i] \in Digits

\* lines 303-307
has_numbers(table_data, col) ==
    \E i \in 2..Len(table_data) :
        col \in DOMAIN table_data[i] /\ HasDigit(table_data[i][col])

\* lines 302-309: the last column holding a number after the header row
DeducedAmountCol(table_data) ==
    LET numeric == {col \in DOMAIN table_data[1] : has_numbers(table_data, col)}
    IN  IF numeric = {} THEN 0
        ELSE CHOOSE col \in numeric : \A other \in numeric : other <= col

\* lines 293-309: the columns still missing after the header scan
Deduce(table_data, found) ==
    IF (found.desc_col = 0 \/ found.amount_col = 0) /\ Len(table_data[1]) >= 2
    THEN [desc_col   |-> IF found.desc_col = 0 THEN 1 ELSE found.desc_col,
          amount_col |-> IF found.amount_col = 0
                         THEN DeducedAmountCol(table_data)
                         ELSE found.amount_col]
    ELSE found

\* lines 311-315: the first and the last column by default
Defaults(table_data, found) ==
    [desc_col   |-> IF found.desc_col = 0 /\ table_data[1] # <<>>
                    THEN 1 ELSE found.desc_col,
     amount_col |-> IF found.amount_col = 0 /\ table_data[1] # <<>>
                    THEN Len(table_data[1]) ELSE found.amount_col]

\* lines 279-315
ResolveColumns(table_data) ==
    Defaults(table_data, Deduce(table_data, HeaderScan(table_data[1], 1, 0, 0)))

\* amount_str.replace(' ', '')
RECURSIVE RemoveSpaces(_)
RemoveSpaces(text) ==
    IF text = <<>> THEN <<>>
    ELSE IF Head(text) = " " THEN RemoveSpaces(Tail(text))
    ELSE <<Head(text)>> \o RemoveSpaces(Tail(text))

DigitChars == <<"0","1","2","3","4","5","6","7","8","9">>

DigitValue(c) == (CHOOSE n \in DOMAIN DigitChars : DigitChars[n] = c) - 1

\* int() of a sequence of digits
RECURSIVE Number(_)
Number(digits) ==
    IF digits = <<>> THEN 0
    ELSE 10 * Number(SubSeq(digits, 1, Len(digits) - 1)) + DigitValue(digits[Len(digits)])

RECURSIVE Pow10(_)
Pow10(n) == IF n = 0 THEN 1 ELSE 10 * Pow10(n - 1)

\* the value of a float: the decimal num / den without trailing zeros
RECURSIVE Decimal(_, _)
Decimal(num, den) ==
    IF den > 1 /\ num % 10 = 0 THEN Decimal(num \div 10, den \div 10)
    ELSE [num |-> num, den |-> den]

\* the index after the run of digits that starts at i
RECURSIVE DigitRunEnd(_, _)
DigitRunEnd(text, i) ==
    IF i <= Len(text) /\ text[i] \in Digits THEN DigitRunEnd(text, i + 1) ELSE i

\* the match of r'(\d+[,.]\d+|\d+)' that starts at start and whose first
\* run of digits ends before stop, as float(group.replace(',', '.'))
MatchedAmount(text, start, stop) ==
    IF stop + 1 <= Len(text) /\ text[stop] \in {",", "."} /\ text[stop + 1] \in Digits
    THEN Decimal(Number(SubSeq(text, start, stop - 1)
                        \o SubSeq(text, stop + 1, DigitRunEnd(text, stop + 1) - 1)),
                 Pow10(DigitRunEnd(text, stop + 1) - stop - 1))
    ELSE Decimal(Number(SubSeq(text, start, stop - 1)), 1)

\* the position of the first digit of a text that holds one
FirstDigit(text) ==
    CHOOSE i \in DOMAIN text :
        text[i] \in Digits /\ \A j \in 1..(i - 1) : text[j] \notin Digits

\* lines 331-335, for a text that holds a digit: re.search takes the
\* leftmost match
ParseAmountAt(text, start) == MatchedAmount(text, start, DigitRunEnd(text, start))

ParseAmount(text) == ParseAmountAt(text, FirstDigit(text))

\* a mutant of IsTotalLabel: the comparison is case-sensitive
IsTotalLabelExact(desc) == desc \in total_labels

\* line 327: desc.lower() in ["total", "sous-total", "somme", "montant"]
IsTotalLabel(desc) == Lower(desc) \in total_labels

\* lines 323-337 for one row whose cells are stripped
RowCharges(desc, amount_str) ==
    IF desc = <<>> \/ IsTotalLabel(desc) THEN <<>>
    ELSE IF ~HasDigit(RemoveSpaces(amount_str)) THEN <<>>
    ELSE << [poste |-> desc, montant |-> ParseAmount(RemoveSpaces(amount_str))] >>

\* lines 318-337: the rows after the first, in order
RECURSIVE ChargesFrom(_, _, _)
ChargesFrom(table_data, i, cols) ==
    IF i > Len(table_data) THEN <<>>
    ELSE (IF cols.desc_col \in DOMAIN table_data[i] /\ cols.amount_col \in DOMAIN table_data[i]
          THEN RowCharges(Strip(table_data[i][cols.desc_col]),
                          Strip(table_data[i][cols.amount_col]))
          ELSE <<>>)
         \o ChargesFrom(table_data, i + 1, cols)

\* lines 264-339
convert_table_data_to_charges(table_data) ==
    IF table_data = <<>> THEN <<>>
    ELSE ChargesFrom(table_data, 2, ResolveColumns(table_data))

(***************************************************************************)
(* SpecTable: a table is built row by row from cells as the OCR of a grid  *)
(* gives them, then converted.                                             *)
(***************************************************************************)
MaxRows == 3

T_Poste       == <<"P","o","s","t","e">>
T_Montant     == <<"M","o","n","t","a","n","t">>
T_Designation == <<"D","é","s","i","g","n","a","t","i","o","n">>
T_Charges     == <<"C","h","a","r","g","e","s">>
T_Annee       == <<"2","0","2","3">>
T_MontantHT   == <<"M","o","n","t","a","n","t"," ","H","T">>
T_MontantTTC  == <<"M","o","n","t","a","n","t"," ","T","T","C">>
T_Gardiennage == <<"G","a","r","d","i","e","n","n","a","g","e">>
T_TOTAL       == <<"T","O","T","A","L">>
T_Somme       == <<" ","s","o","m","m","e"," ">>
T_TotalHT     == <<"T","o","t","a","l"," ","H","T">>
T_1500        == <<"1"," ","5","0","0",",","0","0">>
T_500         == <<"5","0","0">>
T_NA          == <<"n","/","a">>
T_12Euro      == <<"1","2",".","5"," ","E","U","R">>
T_Filler      == <<"1","2">>

HeaderRows ==
    { <<T_Poste, T_Montant>>,
      <<T_Designation, T_MontantHT, T_MontantTTC>>,
      <<T_Charges, T_Annee, <<>> >> }

DescriptionCells == {T_Gardiennage, T_TOTAL, T_Somme, T_TotalHT, <<>>}

AmountCells == {T_1500, T_500, T_NA, T_12Euro}

\* the rows of a table of ncols columns
RowsOf(ncols) ==
    IF ncols = 2
    THEN {<<d, a>> : d \in DescriptionCells, a \in AmountCells}
    ELSE {<<d, T_Filler, a>> : d \in DescriptionCells, a \in AmountCells}

TableInit ==
    /\ CoreIdle
    /\ ExtractIdle
    /\ ImageIdle
    /\ table = <<>>
    /\ table_charges = <<>>
    /\ tpc = "input"

AddHeaderRow ==
    /\ tpc = "input"
    /\ table = <<>>
    /\ \E header_row \in HeaderRows : table' = <<header_row>>
    /\ UNCHANGED <<coreVars, extractVars, imageVars, table_charges, tpc>>

AddRow ==
    /\ tpc = "input"
    /\ table # <<>>
    /\ Len(table) < MaxRows
    /\ \E cells \in RowsOf(Len(table[1])) : table' = Append(table, cells)
    /\ UNCHANGED <<coreVars, extractVars, imageVars, table_charges, tpc>>

ConvertTable ==
    /\ tpc = "input"
    /\ table_charges' = convert_table_data_to_charges(table)
    /\ tpc' = "converted"
    /\ UNCHANGED <<coreVars, extractVars, imageVars, table>>

TableNext == AddHeaderRow \/ AddRow \/ ConvertTable

SpecTable == TableInit /\ [][TableNext]_vars

(***************************************************************************)
(* Claims about convert_table_data_to_charges (SpecTable)                  *)
(***************************************************************************)
\* the description of row i: its cell of the description column, stripped
DescriptionOf(rows, i, cols) == Strip(rows[i][cols.desc_col])

\* the amount cell of row i
AmountCellOf(rows, i, cols) == rows[i][cols.amount_col]

\* the rows that give no record: the header row, a row without description,
\* a row whose description is a total label in any letter case
RejectedRow(rows, i, cols) ==
    \/ i = 1
    \/ DescriptionOf(rows, i, cols) = <<>>
    \/ \E total_label \in total_labels :
           Lower(DescriptionOf(rows, i, cols)) = Lower(total_label)

\* the rows that give a record
RecordRows(rows, cols) ==
    {i \in DOMAIN rows : ~RejectedRow(rows, i, cols) /\ HasDigit(AmountCellOf(rows, i, cols))}

\* the k-th of a set of row numbers
NthRow(numbers, k) ==
    CHOOSE i \in numbers : Cardinality({j \in numbers : j < i}) = k - 1

\* the cell reads as an amount: digits and spaces, with at most one ',' or
\* '.' followed by digits
PlainAmount(cell) ==
    /\ \A i \in DOMAIN cell : cell[i] \in Digits \cup {" ", ",", "."}
    /\ Cardinality({i \in DOMAIN cell : cell[i] \in {",", "."}}) <= 1
    /\ cell # <<>> /\ cell[1] \in Digits /\ cell[Len(cell)] \in Digits

\* the digits of the cell before (part 1) and after (part 2) its separator
RECURSIVE DigitsOfPart(_, _, _)
DigitsOfPart(cell, part, seen) ==
    IF cell = <<>> THEN <<>>
    ELSE IF Head(cell) \in {",", "."} THEN DigitsOfPart(Tail(cell), part, 2)
    ELSE IF Head(cell) \in Digits /\ seen = part
         THEN <<Head(cell)>> \o DigitsOfPart(Tail(cell), part, seen)
         ELSE DigitsOfPart(Tail(cell), part, seen)

\* amount = integer part + decimal part / 10^(number of decimals)
ReadsAs(amount, integer_digits, decimal_digits) ==
    amount.num * Pow10(Len(decimal_digits))
        = amount.den * (Number(integer_digits) * Pow10(Len(decimal_digits))
                        + Number(decimal_digits))

\* one record for each row that gives one, in row order, with the row's
\* description and amount
RecordsOfRows(records, rows, cols) ==
    /\ Len(records) = Cardinality(RecordRows(rows, cols))
    /\ \A k \in DOMAIN records :
           /\ records[k].poste = DescriptionOf(rows, NthRow(RecordRows(rows, cols), k), cols)
           /\ PlainAmount(AmountCellOf(rows, NthRow(RecordRows(rows, cols), k), cols))
                  => ReadsAs(records[k].montant,
                             DigitsOfPart(AmountCellOf(rows, NthRow(RecordRows(rows, cols), k), cols), 1, 1),
                             DigitsOfPart(AmountCellOf(rows, NthRow(RecordRows(rows, cols), k), cols), 2, 1))

\* the rows [Poste|Montant], [TOTAL|500], [Gardiennage|1 500,00]
GardiennageTable ==
    << <<T_Poste, T_Montant>>, <<T_TOTAL, T_500>>, <<T_Gardiennage, T_1500>> >>

\* C15: convert_table_data_to_charges emits no record for row 0, for a row
\* without description or for a row whose description is total, sous-total,
\* somme or montant in any letter case; for every other row whose amount
\* cell holds a number it emits exactly one record, in row order, spaces
\* being dropped from the amount and ',' or '.' read as the decimal
\* separator.  The rows [Poste|Montant], [TOTAL|500], [Gardiennage|1 500,00]
\* give exactly the record {Gardiennage, 1500.0}.
C15_RowsToRecords ==
    tpc = "converted" /\ table # <<>>
    => /\ RecordsOfRows(table_charges, table, ResolveColumns(table))
       /\ table = GardiennageTable
              => table_charges = << [poste   |-> T_Gardiennage,
                                     montant |-> [num |-> 1500, den |-> 1]] >>

\* the table of the scenario was converted and gave one record
C15_GardiennageConverted ==
    /\ tpc = "converted"
    /\ table = GardiennageTable
    /\ Len(table_charges) = 1

\* the number of rows after the header whose cell of the column holds a
\* decimal number
NumericCells(rows, col) ==
    Cardinality({i \in 2..Len(rows) : col \in DOMAIN rows[i] /\ HasDigit(rows[i][col])})

\* the columns in which more than half of the cells after the header hold a
\* decimal number
MajorityNumeric(rows) ==
    {col \in DOMAIN rows[1] : 2 * NumericCells(rows, col) > Len(rows) - 1}

\* the header row holds no amount keyword
NoAmountKeyword(header_row) ==
    \A col \in DOMAIN header_row : ~HasKeyword(header_row[col], amount_keywords)

\* C26: when the header row holds no amount keyword, the amount column
\* taken by convert_table_data_to_charges is the last column in which a
\* majority of the cells after the header hold a decimal number, and the
\* description column is the first one: a column with a number in a
\* minority of its cells is not taken over an earlier one with a majority.
C26_LastMajorityNumericColumn ==
    (tpc = "converted" /\ table # <<>> /\ NoAmountKeyword(table[1])
        /\ MajorityNumeric(table) # {})
    => /\ ResolveColumns(table).desc_col = 1
       /\ \A col \in MajorityNumeric(table) : col <= ResolveColumns(table).amount_col
       /\ ResolveColumns(table).amount_col \in MajorityNumeric(table)

(***************************************************************************)
(* Images.  An image is its shape: height, width and number of channels.   *)
(* A cv2 call that throws is an input of the model: `failing` is the       *)
(* number of the step the environment makes throw, 0 when none does.       *)
(***************************************************************************)
Image(h, w, c) == [height |-> h, width |-> w, channels |-> c]

\* a mutant of est_rows: a floor of 2 rows
est_rows_min2(h) == Max(2, h \div 50)

\* src/utils/table_detector.py line 194
est_rows(h) == Max(3, h \div 50)

\* line 195
est_cols(w) == Max(3, w \div 100)

\* lines 200-201: [i * step for i in range(count + 1)]
Clusters(count, step) == [i \in 1..(count + 1) |-> (i - 1) * step]

\* lines 213-226: the cell between the boundaries, "" when its limits are
\* not valid; the text of a valid cell is what the OCR reads in it
GridCell(y1, y2, x1, x2, h, w) ==
    IF x1 >= x2 \/ y1 >= y2 \/ x2 > w \/ y2 > h
    THEN [text |-> "", region |-> <<>>]
    ELSE [text |-> "ocr", region |-> <<y1, y2, x1, x2>>]

\* lines 207-237: one row per pair of horizontal boundaries, one key col_j
\* per pair of vertical boundaries
GridRows(h_clusters, v_clusters, h, w) ==
    [i \in 1..(Len(h_clusters) - 1) |->
        [j \in 1..(Len(v_clusters) - 1) |->
            GridCell(h_clusters[i], h_clusters[i + 1],
                     v_clusters[j], v_clusters[j + 1], h, w)]]

\* lines 176-242, for an image that is not empty: the boundaries and the
\* table_data returned
ocr_table_by_grid(h, w) ==
    [h_clusters |-> Clusters(est_rows(h), h \div est_rows(h)),
     v_clusters |-> Clusters(est_cols(w), w \div est_cols(w)),
     table_data |-> GridRows(Clusters(est_rows(h), h \div est_rows(h)),
                             Clusters(est_cols(w), w \div est_cols(w)), h, w)]

\* the steps of preprocess_image_for_ocr (src/utils/ocr_utils.py lines 29-43)
OcrSteps == <<"cvtColor", "fastNlMeansDenoising", "clahe", "threshold", "dilate">>

\* the steps of preprocess_table_image (src/utils/table_detector.py lines 108-124)
TableSteps == <<"cvtColor", "clahe", "adaptiveThreshold", "opening", "closing", "bitwise_not">>

\* cv2.cvtColor(img, cv2.COLOR_BGR2GRAY) throws on an image that does not
\* have three channels; any step throws when the environment makes it
FirstFailure(img, failing) ==
    IF img.channels # 3 THEN 1 ELSE failing

\* what a step returns: one channel, the shape kept
StepImage(img, step) ==
    [t |-> "image", height |-> img.height, width |-> img.width, channels |-> 1, step |-> step]

\* src/utils/ocr_utils.py lines 18-45: no step is guarded
preprocess_image_for_ocr(img, failing) ==
    IF FirstFailure(img, failing) # 0
    THEN [raised |-> TRUE, returned |-> PyNone, failed |-> FirstFailure(img, failing)]
    ELSE [raised |-> FALSE, returned |-> StepImage(img, Len(OcrSteps)), failed |-> 0]

\* src/utils/table_detector.py lines 93-131: one try block around the steps
preprocess_table_image(img, failing) ==
    IF FirstFailure(img, failing) # 0
    THEN [raised |-> FALSE, returned |-> PyNone, failed |-> FirstFailure(img, failing)]
    ELSE [raised |-> FALSE, returned |-> StepImage(img, Len(TableSteps)), failed |-> 0]

(***************************************************************************)
(* SpecImage: an image that is not empty is cut into a grid, or            *)
(* preprocessed by one of the two preprocessing functions.                 *)
(***************************************************************************)
MaxHeight == 620
MaxWidth == 410

ImageHeights == {h \in 1..MaxHeight : h < 5 \/ h % 50 \in {0, 1, 11, 49}}
ImageWidths  == {w \in 1..MaxWidth : w < 5 \/ w % 100 \in {0, 1, 99}}

ImageInit ==
    /\ CoreIdle
    /\ ExtractIdle
    /\ TableIdle
    /\ height \in ImageHeights
    /\ width \in ImageWidths
    /\ channels \in {1, 3}
    /\ grid = None
    /\ processed = None
    /\ ipc = "input"

CallOcrTableByGrid ==
    /\ ipc = "input"
    /\ grid' = ocr_table_by_grid(height, width)
    /\ ipc' = "gridded"
    /\ UNCHANGED <<coreVars, extractVars, tableVars, height, width, channels, processed>>

CallPreprocessImageForOcr ==
    /\ ipc = "input"
    /\ \E failing \in 0..Len(OcrSteps) :
           processed' = preprocess_image_for_ocr(Image(height, width, channels), failing)
    /\ ipc' = "preprocessed"
    /\ UNCHANGED <<coreVars, extractVars, tableVars, height, width, channels, grid>>

CallPreprocessTableImage ==
    /\ ipc = "input"
    /\ \E failing \in 0..Len(TableSteps) :
           processed' = preprocess_table_image(Image(height, width, channels), failing)
    /\ ipc' = "preprocessed"
    /\ UNCHANGED <<coreVars, extractVars, tableVars, height, width, channels, grid>>

ImageNext == CallOcrTableByGrid \/ CallPreprocessImageForOcr \/ CallPreprocessTableImage

SpecImage == ImageInit /\ [][ImageNext]_vars

(***************************************************************************)
(* Claims about the grid and the preprocessing (SpecImage)                 *)
(***************************************************************************)
\* the boundaries are evenly spaced
EvenlySpaced(clusters) ==
    \A i \in 1..(Len(clusters) - 2) :
        clusters[i + 1] - clusters[i] = clusters[i + 2] - clusters[i + 1]

\* the table has the given number of rows, each of the given number of cells
HasShape(table_data, nrows, ncols) ==
    /\ Len(table_data) = nrows
    /\ \A i \in DOMAIN table_data : Len(table_data[i]) = ncols

\* C16: the grid resolved for a region of height h and width w (no line or
\* projection peak being looked for) is a uniform grid of max(3, h div 50)
\* rows by max(3, w div 100) columns: at least 2 boundaries per axis, at
\* least 3 x 3 cells, and exactly 3 rows x 3 columns for a 150 x 300 region.
C16_UniformGrid ==
    ipc = "gridded"
    => /\ HasShape(grid.table_data,
                   IF height \div 50 > 3 THEN height \div 50 ELSE 3,
                   IF width \div 100 > 3 THEN width \div 100 ELSE 3)
       /\ Len(grid.h_clusters) = Len(grid.table_data) + 1
       /\ Len(grid.h_clusters) >= 2 /\ Len(grid.v_clusters) >= 2
       /\ EvenlySpaced(grid.h_clusters) /\ EvenlySpaced(grid.v_clusters)
       /\ Len(grid.table_data) >= 3
       /\ \A i \in DOMAIN grid.table_data : Len(grid.table_data[i]) >= 3
       /\ (height = 150 /\ width = 300) => HasShape(grid.table_data, 3, 3)

\* a 150 x 300 region was cut into its grid
C16_Region150x300 ==
    /\ ipc = "gridded"
    /\ height = 150 /\ width = 300
    /\ Len(grid.table_data) = 3

\* each boundary is greater than the one before it
StrictlyIncreasing(clusters) ==
    \A i \in 1..(Len(clusters) - 1) : clusters[i] < clusters[i + 1]

\* every boundary lies between 0 and the extent of the region
WithinExtent(clusters, extent) ==
    \A i \in DOMAIN clusters : clusters[i] \in 0..extent

\* C24: for every region size, regions fewer than 3 pixels high or wide
\* included, the row boundaries and the column boundaries of the grid are
\* strictly increasing integers between 0 and the height (resp. width) of
\* the region, so that every cell has a positive height and width.
C24_BoundariesStrictlyIncrease ==
    ipc = "gridded"
    => /\ StrictlyIncreasing(grid.h_clusters) /\ WithinExtent(grid.h_clusters, height)
       /\ StrictlyIncreasing(grid.v_clusters) /\ WithinExtent(grid.v_clusters, width)
       /\ \A i \in DOMAIN grid.table_data : \A j \in DOMAIN grid.table_data[i] :
              grid.table_data[i][j].region # <<>>

\* the last boundary of the list
LastBoundary(clusters) == clusters[Len(clusters)]

\* C25: on each axis the grid starts at 0 and reaches the far edge of the
\* region to within 10 px (the full extent being added as a boundary when
\* the last computed one is farther than that): no band of more than 10 px
\* at the bottom or at the right lies outside every cell.
C25_GridCoversRegion ==
    ipc = "gridded"
    => /\ grid.h_clusters[1] = 0 /\ grid.v_clusters[1] = 0
       /\ height - LastBoundary(grid.h_clusters) <= 10
       /\ width - LastBoundary(grid.v_clusters) <= 10

\* C18: image preprocessing never raises to its caller: when a step throws,
\* the function returns the image of the last step that succeeded (the
\* input image if none did), with the dimensions of the input.
C18_PreprocessingNeverRaises ==
    ipc = "preprocessed"
    => /\ ~processed.raised
       /\ processed.returned.t = "image"
       /\ processed.returned.height = height
       /\ processed.returned.width = width

(***************************************************************************)
(* The extraction steps of analyze_commercial_lease_charges (src/app.py    *)
(* lines 74-134).  What the documents hold is an input: the records each   *)
(* deterministic method finds in the text, and for each page image whether *)
(* it can be decoded and the table regions found in it, each with the      *)
(* records its grid gives.  A list that is None or empty is <<>>.          *)
(* Every attempt to extract a list is written to log, in order.            *)
(***************************************************************************)
X_Three == << [poste |-> L_NETTOYAGE, montant |-> 1200],
              [poste |-> L_EAU, montant |-> 500],
              [poste |-> L_EauChaude, montant |-> 500] >>
X_One   == << [poste |-> L_Lot10, montant |-> 500] >>
X_Mixed == << [poste |-> L_EAU, montant |-> 500], [montant |-> 1200] >>
X_Categories == << [categorie |-> L_Nettoyage], [categorie |-> L_Chauffage], [categorie |-> L_Eau] >>

\* an attempt: the function, the list it extracts, whether it asks the
\* oracle, the number of records it gave; for a page image: its number,
\* whether the image pipeline was reached, and the number of regions whose
\* grid was read
Event(op, list, kind, got) ==
    [op |-> op, list |-> list, kind |-> kind, got |-> got,
     page |-> 0, image |-> FALSE, regions |-> 0]

\* the replies of the oracle to a request for categories
CategoryReplies ==
    { NoResponse,
      Json(PyList(X_Categories)),
      Json(PyDict([charges_refacturables |-> PyList(<< [categorie |-> L_Eau] >>)])),
      Json(PyDict([postes |-> PyList(<< [categorie |-> L_Eau] >>)])) }

\* the replies of the oracle to a request for charges
ChargeReplies ==
    { NoResponse,
      Json(PyDict([charges |-> PyList(X_Three)])),
      Json(PyDict([charges |-> PyList(X_Mixed)])) }

\* "charge" in key.lower(), for the keys in use
IsChargeKey(key) == key \in {"charges_refacturables", "charges", "charges_facturees"}

\* the list held by the first key of the dict that satisfies the test; the
\* replies in use have one key
FirstList(d, keys) ==
    IF \E k \in keys : d[k].t = "list"
    THEN d[CHOOSE k \in keys : d[k].t = "list"].items
    ELSE <<>>

\* src/analysis/bail_analyzer.py lines 118-132: the list in the reply, taken
\* as it is
CategoriesOf(result) ==
    IF result.t = "dict" /\ \E k \in DOMAIN result.d : IsChargeKey(k)
    THEN FirstList(result.d, {k \in DOMAIN result.d : IsChargeKey(k)})
    ELSE IF result.t = "list" THEN result.items
    ELSE <<>>

\* src/analysis/bail_analyzer.py lines 65-136
extract_refacturable_charges_from_bail(response_text) ==
    CategoriesOf(parse_json_response(response_text, PyList(<<>>)))

\* src/analysis/bail_analyzer.py lines 189-201
RetriedCategoriesOf(result) ==
    IF result.t = "list" THEN result.items
    ELSE IF result.t = "dict" THEN FirstList(result.d, DOMAIN result.d)
    ELSE <<>>

\* src/analysis/bail_analyzer.py lines 138-205
retry_extract_refacturable_charges(response_text) ==
    RetriedCategoriesOf(parse_json_response(response_text, PyList(<<>>)))

\* src/analysis/charges_analyzer.py lines 267-277: the entries of the reply
\* that have both keys
RECURSIVE valid_charges(_)
valid_charges(items) ==
    IF items = <<>> THEN <<>>
    ELSE (IF {"poste", "montant"} \subseteq DOMAIN Head(items) THEN <<Head(items)>> ELSE <<>>)
         \o valid_charges(Tail(items))

\* lines 265-277, and lines 345-351 of extract_charged_amounts_fallback
ValidChargesOf(result) ==
    IF In("charges", result) /\ result.d["charges"].t = "list"
    THEN valid_charges(result.d["charges"].items)
    ELSE <<>>

(***************************************************************************)
(* detect_and_extract_tables (src/utils/table_detector.py lines 380-512)   *)
(***************************************************************************)
\* a call without image_data
NoPage == [given |-> FALSE, decodable |-> FALSE, regions |-> <<>>]

\* lines 413-470: the regions extract_tables_from_image found in the page,
\* none when the image cannot be decoded; a page without contour has none
TablesOf(page) == IF page.given /\ page.decodable THEN page.regions ELSE <<>>

\* lines 473-490: the records of every region whose preprocessing gave an
\* image, in the order of the regions
RECURSIVE RegionCharges(_)
RegionCharges(tables) ==
    IF tables = <<>> THEN <<>>
    ELSE (IF Head(tables).preprocessable THEN Head(tables).charges ELSE <<>>)
         \o RegionCharges(Tail(tables))

\* the number of regions that went through extract_table_data
RECURSIVE RegionsRead(_)
RegionsRead(tables) ==
    IF tables = <<>> THEN 0
    ELSE (IF Head(tables).preprocessable THEN 1 ELSE 0) + RegionsRead(Tail(tables))

\* lines 493-510: the two searches in the text, when nothing was found
TextFallback(all_charges, text) ==
    IF all_charges # <<>> THEN all_charges
    ELSE IF text.direct # <<>> THEN text.direct
    ELSE text.known

\* lines 380-512; text.section is what lines 394-411 find
detect_and_extract_tables(text, page) ==
    IF text.section # <<>> THEN text.section
    ELSE TextFallback(RegionCharges(TablesOf(page)), text)

\* the attempt made on page number n
PageEvent(text, page, n) ==
    [op |-> "detect_and_extract_tables", list |-> "charges", kind |-> "deterministic",
     got |-> Len(detect_and_extract_tables(text, page)),
     page |-> n,
     image |-> text.section = <<>> /\ page.decodable,
     regions |-> IF text.section = <<>> THEN RegionsRead(TablesOf(page)) ELSE 0]

(***************************************************************************)
(* extract_charged_amounts_from_reddition and its fallback                 *)
(* (src/analysis/charges_analyzer.py lines 180-351)                        *)
(***************************************************************************)
\* lines 305-351: one request, the valid entries of the reply
extract_charged_amounts_fallback(fallback_text) ==
    ValidChargesOf(parse_json_response(fallback_text, PyDict([charges |-> PyList(<<>>)])))

\* lines 258-303: the request, then the fallback when no entry is valid
FromOracle(events, valid, fallback) ==
    IF valid # <<>>
    THEN [charges |-> valid,
          events  |-> Append(events, Event("extract_charged_amounts_from_reddition",
                                           "charges", "oracle", Len(valid)))]
    ELSE [charges |-> fallback,
          events  |-> events \o
                      << Event("extract_charged_amounts_from_reddition", "charges", "oracle", 0),
                         Event("extract_charged_amounts_fallback", "charges", "oracle", Len(fallback)) >>]

\* lines 214-218
FromStructured(events, structured_charges, valid, fallback) ==
    IF Len(structured_charges) >= 3
    THEN [charges |-> structured_charges,
          events  |-> Append(events, Event("extract_structured_data_from_text",
                                           "charges", "deterministic", Len(structured_charges)))]
    ELSE FromOracle(Append(events, Event("extract_structured_data_from_text",
                                         "charges", "deterministic", Len(structured_charges))),
                    valid, fallback)

\* lines 206-212
FromTableStructure(events, from_table, structured_charges, valid, fallback) ==
    IF Len(from_table) >= 3
    THEN [charges |-> from_table,
          events  |-> Append(events, Event("extract_charges_from_table",
                                           "charges", "deterministic", Len(from_table)))]
    ELSE FromStructured(Append(events, Event("extract_charges_from_table",
                                             "charges", "deterministic", Len(from_table))),
                        structured_charges, valid, fallback)

\* lines 198-204
FromTables(charges_from_tables, from_table, structured_charges, valid, fallback) ==
    IF Len(charges_from_tables) >= 3
    THEN [charges |-> charges_from_tables,
          events  |-> << Event("detect_and_extract_tables", "charges", "deterministic",
                               Len(charges_from_tables)) >>]
    ELSE FromTableStructure(<< Event("detect_and_extract_tables", "charges", "deterministic",
                                     Len(charges_from_tables)) >>,
                            from_table, structured_charges, valid, fallback)

\* lines 180-303.  from_table and structured_charges are what the second
\* and the third method find in the text.
extract_charged_amounts_from_reddition(text, from_table, structured_charges, response_text, fallback_text) ==
    FromTables(detect_and_extract_tables(text, NoPage), from_table, structured_charges,
               ValidChargesOf(parse_json_response(response_text, EmptyDict)),
               extract_charged_amounts_fallback(fallback_text))

(***************************************************************************)
(* Step 2 of src/app.py (lines 74-96)                                      *)
(***************************************************************************)
\* lines 87-90: the local extraction when nothing was found
Step2Local(events, found, local) ==
    IF found # <<>> THEN [charges |-> found, events |-> events]
    ELSE [charges |-> local,
          events  |-> Append(events, Event("extract_refacturable_charges_locally",
                                           "categories", "deterministic", Len(local)))]

\* lines 80-85: the request, and the second request when the first gave
\* nothing
Step2Oracle(first, retried, local) ==
    IF first # <<>>
    THEN Step2Local(<< Event("extract_refacturable_charges_from_bail",
                             "categories", "oracle", Len(first)) >>, first, local)
    ELSE Step2Local(<< Event("extract_refacturable_charges_from_bail", "categories", "oracle", 0),
                       Event("retry_extract_refacturable_charges",
                             "categories", "oracle", Len(retried)) >>, retried, local)

\* lines 74-96
Step2(client, first, retried, local) ==
    IF client THEN Step2Oracle(first, retried, local)
    ELSE Step2Local(<<>>, <<>>, local)

(***************************************************************************)
(* SpecExtract: steps 2 and 3 of analyze_commercial_lease_charges on the   *)
(* documents of a call, with every reply of the oracle.                    *)
(***************************************************************************)
MaxPages == 2

X_Other == << [poste |-> L_Lot5, montant |-> 1200],
              [poste |-> L_FraisDeGestion, montant |-> 500],
              [poste |-> L_Lot10, montant |-> 1200] >>

Region(preprocessable, found) == [preprocessable |-> preprocessable, charges |-> found]

Page(decodable, regions) == [given |-> TRUE, decodable |-> decodable, regions |-> regions]

P_Undecodable == Page(FALSE, <<>>)
P_Blank       == Page(TRUE, <<>>)
P_One         == Page(TRUE, << Region(TRUE, X_One) >>)
P_Three       == Page(TRUE, << Region(TRUE, X_Three) >>)
P_Two         == Page(TRUE, << Region(FALSE, X_One), Region(TRUE, X_Other) >>)

PageKinds == {P_Undecodable, P_Blank, P_One, P_Three, P_Two}

\* one image per file of charges, at least one file
PageLists == UNION {[1..n -> PageKinds] : n \in 1..MaxPages}

Texts ==
    [section : {<<>>, X_Three}, direct : {<<>>, X_One}, known : {<<>>, X_One}]

LocalCategoryResults == {<<>>, X_Categories}

TextResults == {<<>>, X_Three}

LocalChargeResults == {<<>>, X_One}

\* the values to draw for something the call reads only when needed
DrawnIf(needed, values) == IF needed THEN values ELSE {<<>>}

ExtractInit ==
    /\ CoreIdle
    /\ TableIdle
    /\ ImageIdle
    /\ docs \in [client : BOOLEAN, text : Texts, pages : PageLists]
    /\ log = <<>>
    /\ xpc = "step2"

extractFrame == <<normVars, pc, matchVars, outcome, entryVars, call, tableVars, imageVars, docs>>

\* src/app.py lines 74-96
ExtractRefacturableCharges ==
    /\ xpc = "step2"
    /\ \E r1 \in RepliesIf(docs.client, CategoryReplies) :
       \E r2 \in RepliesIf(docs.client /\ extract_refacturable_charges_from_bail(r1) = <<>>,
                           CategoryReplies) :
       \E local \in DrawnIf(~docs.client
                            \/ (extract_refacturable_charges_from_bail(r1) = <<>>
                                /\ retry_extract_refacturable_charges(r2) = <<>>),
                            LocalCategoryResults) :
       \E out \in {Step2(docs.client, extract_refacturable_charges_from_bail(r1),
                         retry_extract_refacturable_charges(r2), local)} :
           /\ refacturable_charges' = out.charges
           /\ log' = log \o out.events
           /\ xpc' = IF out.charges = <<>> THEN "aborted" ELSE "step3"
    /\ UNCHANGED <<extractFrame, charged_amounts>>

\* the number of the page the loop of line 106 is at
NextPage == 1 + Cardinality({i \in DOMAIN log : log[i].page > 0})

\* src/app.py lines 106-113: one round of the loop over the images
ProcessPage ==
    /\ xpc = "step3"
    /\ NextPage <= Len(docs.pages)
    /\ \E found \in {detect_and_extract_tables(docs.text, docs.pages[NextPage])} :
           /\ charged_amounts' = IF Len(found) >= 3 THEN found ELSE charged_amounts
           /\ xpc' = IF Len(found) >= 3 \/ NextPage = Len(docs.pages)
                     THEN "step3_api" ELSE "step3"
    /\ log' = Append(log, PageEvent(docs.text, docs.pages[NextPage], NextPage))
    /\ UNCHANGED <<extractFrame, refacturable_charges>>

\* src/app.py lines 115-117
ExtractChargedAmountsFromReddition ==
    /\ xpc = "step3_api"
    /\ \/ /\ charged_amounts = <<>> /\ docs.client
          /\ \E from_table, structured_charges \in TextResults :
             \E r1, r2 \in ChargeReplies :
             \E out \in {extract_charged_amounts_from_reddition(docs.text, from_table,
                                                                structured_charges, r1, r2)} :
                 /\ charged_amounts' = out.charges
                 /\ log' = log \o out.events
       \/ /\ ~(charged_amounts = <<>> /\ docs.client)
          /\ UNCHANGED <<charged_amounts, log>>
    /\ xpc' = "step3_fallback"
    /\ UNCHANGED <<extractFrame, refacturable_charges>>

\* src/app.py lines 119-122
ExtractChargedAmountsFallback ==
    /\ xpc = "step3_fallback"
    /\ \/ /\ charged_amounts = <<>> /\ docs.client
          /\ \E r \in ChargeReplies :
                 /\ charged_amounts' = extract_charged_amounts_fallback(r)
                 /\ log' = Append(log, Event("extract_charged_amounts_fallback", "charges", "oracle",
                                             Len(extract_charged_amounts_fallback(r))))
       \/ /\ ~(charged_amounts = <<>> /\ docs.client)
          /\ UNCHANGED <<charged_amounts, log>>
    /\ xpc' = "step3_local"
    /\ UNCHANGED <<extractFrame, refacturable_charges>>

\* src/app.py lines 124-134
ExtractChargedAmountsLocally ==
    /\ xpc = "step3_local"
    /\ \/ /\ charged_amounts = <<>>
          /\ \E local \in LocalChargeResults :
                 /\ charged_amounts' = local
                 /\ log' = Append(log, Event("extract_charged_amounts_locally", "charges",
                                             "deterministic", Len(local)))
                 /\ xpc' = IF local = <<>> THEN "aborted" ELSE "extracted"
       \/ /\ charged_amounts # <<>>
          /\ xpc' = "extracted"
          /\ UNCHANGED <<charged_amounts, log>>
    /\ UNCHANGED <<extractFrame, refacturable_charges>>

ExtractNext ==
    \/ ExtractRefacturableCharges
    \/ ProcessPage
    \/ ExtractChargedAmountsFromReddition
    \/ ExtractChargedAmountsFallback
    \/ ExtractChargedAmountsLocally

SpecExtract == ExtractInit /\ [][ExtractNext]_vars

(***************************************************************************)
(* Claims about the extraction steps (SpecExtract)                         *)
(***************************************************************************)
\* C13: the oracle is asked for a list (charge records, or refacturable
\* categories) only after the deterministic extraction of that list has
\* been tried and has given fewer than 3 records; once a deterministic
\* method has given 3 records or more, no request for that list is made.
C13_OracleAfterDeterministic ==
    \A i \in DOMAIN log :
        log[i].kind = "oracle"
        => /\ \E j \in 1..(i - 1) :
                  log[j].kind = "deterministic" /\ log[j].list = log[i].list
           /\ \A j \in 1..(i - 1) :
                  (log[j].kind = "deterministic" /\ log[j].list = log[i].list)
                  => log[j].got < 3

\* C17: when no table region is found in a page image, the whole page is
\* treated as one region: its grid is read and its records assembled, the
\* page is not dropped from the image pipeline.
C17_WholePageIsARegion ==
    \A i \in DOMAIN log :
        (/\ log[i].page > 0
         /\ log[i].image
         /\ docs.pages[log[i].page].regions = <<>>)
        => log[i].regions >= 1

\* the records found in the image of each page, in page order
RECURSIVE PagesRecords(_)
PagesRecords(pages) ==
    IF pages = <<>> THEN <<>>
    ELSE RegionCharges(TablesOf(Head(pages))) \o PagesRecords(Tail(pages))

\* the text of the documents gives no record
NoText == [section |-> <<>>, direct |-> <<>>, known |-> <<>>]

\* C19: for a charges document of several pages, the list of charge records
\* used for the analysis is the concatenation of the records of every page,
\* in page order; no page's records are dropped because an earlier page had
\* given enough records.
C19_PagesConcatenated ==
    (/\ xpc = "extracted"
     /\ Len(docs.pages) >= 2
     /\ docs.text = NoText
     /\ PagesRecords(docs.pages) # <<>>)
    => charged_amounts = PagesRecords(docs.pages)

(***************************************************************************)
(* SpecNorm: the normalizer applied once and then again to its own output, *)
(* on every label of at most MaxLabelLen characters over NormAlphabet.     *)
(***************************************************************************)
MaxLabelLen == 5

NormAlphabet == {"a", "x", "A", " ", "-"}

RECURSIVE LabelsUpTo(_)
LabelsUpTo(n) ==
    IF n = 0 THEN {<<>>}
    ELSE LET shorter == LabelsUpTo(n - 1)
         IN  shorter \cup {Append(s, c) : s \in shorter, c \in NormAlphabet}

NormLabels == LabelsUpTo(MaxLabelLen)

InitIdle ==
    /\ refacturable_charges = <<>>
    /\ charged_amounts = <<>>
    /\ pc = "idle"
    /\ matches = None
    /\ evaluations = <<>>
    /\ outcome = None
    /\ entry = None
    /\ returned = None
    /\ MoreIdle

NormInit ==
    /\ label \in NormLabels
    /\ key1 = None
    /\ key2 = None
    /\ npc = "input"
    /\ InitIdle

\* standardize_charge_names([{"poste": label}])[0]["standardized_name"]
Standardize ==
    /\ npc = "input"
    /\ key1' = StandardizeName(label)
    /\ npc' = "once"
    /\ UNCHANGED <<label, key2, inputVars, pc, matchVars, outcome, entryVars, moreVars>>

\* the same call on the key it produced
Restandardize ==
    /\ npc = "once"
    /\ key2' = StandardizeName(key1)
    /\ npc' = "twice"
    /\ UNCHANGED <<label, key1, inputVars, pc, matchVars, outcome, entryVars, moreVars>>

NormNext == Standardize \/ Restandardize

SpecNorm == NormInit /\ [][NormNext]_vars

\* C1: the normalizer is idempotent: normalizing a normalized key returns
\* the same key, for every label.
C1_Idempotent == npc = "twice" => key2 = key1

\* a label with a stopword between two other words, normalized twice
C1_StopwordBetweenWords ==
    /\ npc = "twice"
    /\ label = <<"x", " ", "a", " ", "x">>

====
